---- MODULE Spec2Model ----
(***************************************************************************)
(* KeyVaultPro: the client-side encryption library (src/lib/encryption.ts) *)
(* and the vault page's session state machine (src/app/vault/page.tsx)     *)
(* with the vault API routes it talks to.                                  *)
(*                                                                         *)
(* Strings are sequences of UTF-16 code units (naturals below 65536), byte *)
(* buffers are sequences of naturals below 256, and base64 text is a       *)
(* sequence of character codes.                                            *)
(***************************************************************************)
EXTENDS Integers, Sequences, FiniteSets, TLC

(***************************************************************************)
(* State of the encryption library's test bench (SpecCrypto): one call of  *)
(* encryptData followed by one call of decryptData.                        *)
(***************************************************************************)
VARIABLES
  cData,       \* the plaintext handed to encryptData
  cPassword,   \* the master password handed to encryptData
  cResult,     \* the EncryptionResult encryptData returned
  cParams,     \* the DecryptionParams handed to decryptData
  cChanged,    \* what the caller changed in cParams: "none", "text", "bytes", "password"
  cOutcome,    \* what decryptData did: a string returned or the error thrown
  cPc          \* "start", "encrypted", "decrypted"

(***************************************************************************)
(* State of the master-password routes (SpecMaster): the users table, the  *)
(* init requests suspended between their select and their update, and the  *)
(* response sent last.                                                     *)
(***************************************************************************)
VARIABLES
  users,           \* table users by id: [vault_initialized, master_password_hash, master_password_salt]
  initRequests,    \* init requests that passed the check and have not updated yet
  masterResponse,  \* the response a master-password route sent last
  initSucceeded    \* the init requests answered with success, in order (history)

masterVars == <<users, initRequests, masterResponse, initSucceeded>>

(***************************************************************************)
(* State of the API-key routes (SpecKeys): the api_keys and audit_logs     *)
(* tables and the response sent last.                                      *)
(***************************************************************************)
VARIABLES
  api_keys,      \* the rows of table api_keys, in insertion order
  audit_logs,    \* the rows of table audit_logs, in insertion order
  keysResponse,  \* the response a keys route sent last, with its request
  keySecrets     \* key id -> the API key and PIN it was created with (history)

keysVars == <<api_keys, audit_logs, keysResponse, keySecrets>>

(***************************************************************************)
(* State of the workflow demo component (SpecDemo).                        *)
(***************************************************************************)
VARIABLES
  steps,       \* useState(steps): step id -> status
  isRunning,   \* useState(false)
  demoFields,  \* which of the displayed values are set (not '')
  demoPc       \* where the runDemo invocation is suspended: [step, at]

demoVars == <<steps, isRunning, demoFields, demoPc>>

\* The state outside the library's bench and the vault page.
otherVars == <<masterVars, keysVars, demoVars>>

libState == <<cData, cPassword, cResult, cParams, cChanged, cOutcome, cPc>>
cryptoVars == <<libState, otherVars>>

(***************************************************************************)
(* State of the vault page (Spec): the React state of VaultPage, the       *)
(* handler invocations suspended at an await, the browser's pending        *)
(* timeouts and clipboard, and the two server tables behind the vault API. *)
(***************************************************************************)
VARIABLES
  isUnlocked,       \* useState(false)
  masterPassword,   \* useState('')
  vaults,           \* useState<VaultItem[]>([])
  showAddForm,      \* useState(false)
  loading,          \* useState(false)
  error,            \* useState(''): the parts of the message, <<>> for ''
  autoLockTimer,    \* useState(null): a timeout id, 0 for null
  revealedKeys,     \* useState(new Set())
  tasks,            \* slot -> handler invocation suspended at an await
  timers,           \* pending auto-lock timeouts: [id, remaining, closureTimer]
  clipboard,        \* the text on the system clipboard
  clipTimers,       \* number of pending clipboard clears
  idle,             \* while unlocked: ticks since resetAutoLock last ran (history)
  api_vault,        \* the rows of table api_vault, in insertion order
  vault_audit_log   \* the rows of table vault_audit_log, in insertion order

pageState == <<isUnlocked, masterPassword, vaults, showAddForm, loading, error,
               autoLockTimer, revealedKeys>>
browserVars == <<tasks, timers, clipboard, clipTimers, idle>>
serverVars == <<api_vault, vault_audit_log>>
pageVars == <<pageState, browserVars, serverVars, otherVars>>
vars == <<cryptoVars, pageVars>>

(***************************************************************************)
(* Bounds of the model.                                                    *)
(***************************************************************************)
MaxPlainLen == 2
MaxEntries == 1
MaxAudit == 4
MaxTimers == 2
MaxCopies == 1
MaxTasks == 2

(***************************************************************************)
(* Program constants.                                                      *)
(***************************************************************************)
SALT_LENGTH == 16
IV_LENGTH == 12
MinPasswordLength == 16
\* One tick of the model's clock is one minute: the auto-lock delay of
\* 5 * 60 * 1000 ms is five ticks.  The clipboard clear, due 30000 ms after a
\* copy, runs between the tick of its copy and the next tick.
AutoLockTicks == 5

DecryptionFailedMessage == "Decryption failed: Invalid password or corrupted data"

(***************************************************************************)
(* TextEncoder.encode: UTF-16 code units to UTF-8 bytes.  A surrogate pair *)
(* becomes one four-byte sequence; a lone surrogate is replaced by U+FFFD  *)
(* (EF BF BD), as the conversion to a scalar-value string prescribes.      *)
(***************************************************************************)
IsHighSurrogate(c) == c >= 55296 /\ c <= 56319
IsLowSurrogate(c) == c >= 56320 /\ c <= 57343

Utf8OfCodePoint(cp) ==
  IF cp < 128 THEN <<cp>>
  ELSE IF cp < 2048 THEN <<192 + (cp \div 64), 128 + (cp % 64)>>
  ELSE IF cp < 65536 THEN
    <<224 + (cp \div 4096), 128 + ((cp \div 64) % 64), 128 + (cp % 64)>>
  ELSE
    <<240 + (cp \div 262144), 128 + ((cp \div 4096) % 64),
      128 + ((cp \div 64) % 64), 128 + (cp % 64)>>

RECURSIVE TextEncodeFrom(_, _)
TextEncodeFrom(s, i) ==
  IF i > Len(s) THEN <<>>
  ELSE IF IsHighSurrogate(s[i]) /\ i < Len(s) /\ IsLowSurrogate(s[i + 1]) THEN
    Utf8OfCodePoint(65536 + (s[i] - 55296) * 1024 + (s[i + 1] - 56320))
      \o TextEncodeFrom(s, i + 2)
  ELSE IF IsHighSurrogate(s[i]) \/ IsLowSurrogate(s[i]) THEN
    Utf8OfCodePoint(65533) \o TextEncodeFrom(s, i + 1)
  ELSE Utf8OfCodePoint(s[i]) \o TextEncodeFrom(s, i + 1)

TextEncode(s) == TextEncodeFrom(s, 1)

(***************************************************************************)
(* TextDecoder.decode with the default options (utf-8, not fatal,          *)
(* ignoreBOM false): malformed input decodes to U+FFFD, code points above  *)
(* U+FFFF become a surrogate pair, and one leading U+FEFF is dropped.      *)
(***************************************************************************)
IsContinuation(b) == b >= 128 /\ b <= 191

CodeUnitsOfCodePoint(cp) ==
  IF cp < 65536 THEN <<cp>>
  ELSE <<55296 + ((cp - 65536) \div 1024), 56320 + ((cp - 65536) % 1024)>>

RECURSIVE Utf8DecodeFrom(_, _)
Utf8DecodeFrom(b, i) ==
  IF i > Len(b) THEN <<>>
  ELSE IF b[i] < 128 THEN <<b[i]>> \o Utf8DecodeFrom(b, i + 1)
  ELSE IF b[i] >= 194 /\ b[i] <= 223 /\ i + 1 <= Len(b) /\ IsContinuation(b[i + 1]) THEN
    <<(b[i] - 192) * 64 + (b[i + 1] - 128)>> \o Utf8DecodeFrom(b, i + 2)
  ELSE IF b[i] >= 224 /\ b[i] <= 239 /\ i + 2 <= Len(b)
          /\ IsContinuation(b[i + 1]) /\ IsContinuation(b[i + 2])
          /\ (b[i] # 224 \/ b[i + 1] >= 160)
          /\ (b[i] # 237 \/ b[i + 1] <= 159) THEN
    <<(b[i] - 224) * 4096 + (b[i + 1] - 128) * 64 + (b[i + 2] - 128)>>
      \o Utf8DecodeFrom(b, i + 3)
  ELSE IF b[i] >= 240 /\ b[i] <= 244 /\ i + 3 <= Len(b)
          /\ IsContinuation(b[i + 1]) /\ IsContinuation(b[i + 2])
          /\ IsContinuation(b[i + 3])
          /\ (b[i] # 240 \/ b[i + 1] >= 144)
          /\ (b[i] # 244 \/ b[i + 1] <= 143) THEN
    CodeUnitsOfCodePoint((b[i] - 240) * 262144 + (b[i + 1] - 128) * 4096
                         + (b[i + 2] - 128) * 64 + (b[i + 3] - 128))
      \o Utf8DecodeFrom(b, i + 4)
  ELSE <<65533>> \o Utf8DecodeFrom(b, i + 1)

TextDecode(b) ==
  LET units == Utf8DecodeFrom(b, 1)
  IN IF Len(units) > 0 /\ units[1] = 65279 THEN Tail(units) ELSE units

(***************************************************************************)
(* btoa / atob.  btoa is the canonical base64 encoding; atob is the        *)
(* forgiving decoder: it strips ASCII whitespace, accepts missing padding, *)
(* rejects characters outside the alphabet and a length of 1 modulo 4, and *)
(* discards the unused low bits of the last character without checking.    *)
(***************************************************************************)
B64Char(i) ==
  IF i < 26 THEN 65 + i
  ELSE IF i < 52 THEN 97 + (i - 26)
  ELSE IF i < 62 THEN 48 + (i - 52)
  ELSE IF i = 62 THEN 43 ELSE 47

B64Index(c) ==
  IF c >= 65 /\ c <= 90 THEN c - 65
  ELSE IF c >= 97 /\ c <= 122 THEN c - 97 + 26
  ELSE IF c >= 48 /\ c <= 57 THEN c - 48 + 52
  ELSE IF c = 43 THEN 62
  ELSE IF c = 47 THEN 63 ELSE -1

RECURSIVE btoa(_)
btoa(b) ==
  IF Len(b) = 0 THEN <<>>
  ELSE IF Len(b) = 1 THEN
    <<B64Char(b[1] \div 4), B64Char((b[1] % 4) * 16), 61, 61>>
  ELSE IF Len(b) = 2 THEN
    <<B64Char(b[1] \div 4), B64Char((b[1] % 4) * 16 + (b[2] \div 16)),
      B64Char((b[2] % 16) * 4), 61>>
  ELSE
    <<B64Char(b[1] \div 4), B64Char((b[1] % 4) * 16 + (b[2] \div 16)),
      B64Char((b[2] % 16) * 4 + (b[3] \div 64)), B64Char(b[3] % 64)>>
      \o btoa(SubSeq(b, 4, Len(b)))

IsAsciiWhitespace(c) == c \in {9, 10, 12, 13, 32}

StripPadding(t) ==
  IF Len(t) % 4 # 0 \/ Len(t) = 0 THEN t
  ELSE IF t[Len(t)] # 61 THEN t
  ELSE IF t[Len(t) - 1] # 61 THEN SubSeq(t, 1, Len(t) - 1)
  ELSE SubSeq(t, 1, Len(t) - 2)

RECURSIVE DecodeSextets(_)
DecodeSextets(t) ==
  IF Len(t) < 2 THEN <<>>
  ELSE IF Len(t) = 2 THEN
    <<B64Index(t[1]) * 4 + (B64Index(t[2]) \div 16)>>
  ELSE IF Len(t) = 3 THEN
    <<B64Index(t[1]) * 4 + (B64Index(t[2]) \div 16),
      (B64Index(t[2]) % 16) * 16 + (B64Index(t[3]) \div 4)>>
  ELSE
    <<B64Index(t[1]) * 4 + (B64Index(t[2]) \div 16),
      (B64Index(t[2]) % 16) * 16 + (B64Index(t[3]) \div 4),
      (B64Index(t[3]) % 4) * 64 + B64Index(t[4])>>
      \o DecodeSextets(SubSeq(t, 5, Len(t)))

atob(text) ==
  LET stripped == SelectSeq(text, LAMBDA c : ~IsAsciiWhitespace(c))
      data == StripPadding(stripped)
  IN IF Len(data) % 4 = 1 \/ \E i \in 1..Len(data) : B64Index(data[i]) = -1
     THEN [ok |-> FALSE, bytes |-> <<>>]
     ELSE [ok |-> TRUE, bytes |-> DecodeSextets(data)]

arrayBufferToBase64(buffer) == btoa(buffer)

base64ToArrayBuffer(base64) == atob(base64)

(***************************************************************************)
(* deriveKey (PBKDF2-HMAC-SHA256) and AES-GCM from the Web Crypto API.     *)
(* The primitives are modelled by small keyed polynomial hashes that keep  *)
(* their contract: the key is a deterministic function of the password's   *)
(* UTF-8 bytes and the salt; the ciphertext is the plaintext combined with *)
(* a key stream of (key, iv), followed by an authentication tag over       *)
(* (key, iv, body); decryption verifies the tag before it releases bytes.  *)
(***************************************************************************)
RECURSIVE PolyHashFrom(_, _, _)
PolyHashFrom(b, i, h) ==
  IF i > Len(b) THEN h
  ELSE PolyHashFrom(b, i + 1, (h * 263 + b[i] + 1) % 65521)

PolyHash(b) == PolyHashFrom(b, 1, 7)

\* A deriveKey that leaves the salt out of the derivation.
deriveKeyIgnoringSalt(password, salt) ==
  PolyHash(TextEncode(password) \o <<256>>)

deriveKey(password, salt) ==
  PolyHash(TextEncode(password) \o <<256>> \o salt)

KeyStreamByte(key, iv, i) ==
  PolyHash(<<key % 256, key \div 256>> \o iv \o <<i>>) % 256

RECURSIVE WeightedSum(_, _)
WeightedSum(body, i) ==
  IF i > Len(body) THEN 0
  ELSE (i * (body[i] + 1) + WeightedSum(body, i + 1)) % 65521

GcmTag(key, iv, body) ==
  LET t == (PolyHash(<<key % 256, key \div 256, 257>> \o iv) + WeightedSum(body, 1)) % 65521
  IN <<t \div 256, t % 256>>

AesGcmEncrypt(key, iv, data) ==
  LET body == [i \in 1..Len(data) |-> (data[i] + KeyStreamByte(key, iv, i)) % 256]
  IN body \o GcmTag(key, iv, body)

AesGcmDecryptNoTagCheck(key, iv, ct) ==
  IF Len(ct) < 2 THEN [ok |-> FALSE, bytes |-> <<>>]
  ELSE LET body == SubSeq(ct, 1, Len(ct) - 2)
       IN [ok |-> TRUE,
           bytes |-> [i \in 1..Len(body) |->
                        (body[i] + 256 - KeyStreamByte(key, iv, i)) % 256]]

AesGcmDecrypt(key, iv, ct) ==
  IF Len(ct) < 2 THEN [ok |-> FALSE, bytes |-> <<>>]
  ELSE LET body == SubSeq(ct, 1, Len(ct) - 2)
           tag == SubSeq(ct, Len(ct) - 1, Len(ct))
       IN IF tag # GcmTag(key, iv, body) THEN [ok |-> FALSE, bytes |-> <<>>]
          ELSE [ok |-> TRUE,
                bytes |-> [i \in 1..Len(body) |->
                             (body[i] + 256 - KeyStreamByte(key, iv, i)) % 256]]

(***************************************************************************)
(* encryptData: salt and iv are the two values crypto.getRandomValues      *)
(* returned.  decryptData: every failure inside the try block is replaced  *)
(* by the one generic error.                                               *)
(***************************************************************************)
\* An encryptData whose result carries the data itself in place of ciphertext.
encryptDataInClear(data, password, salt, iv) ==
  [encrypted |-> data,
   iv |-> arrayBufferToBase64(iv),
   salt |-> arrayBufferToBase64(salt)]

encryptData(data, password, salt, iv) ==
  LET key == deriveKey(password, salt)
      encryptedBuffer == AesGcmEncrypt(key, iv, TextEncode(data))
  IN [encrypted |-> arrayBufferToBase64(encryptedBuffer),
      iv |-> arrayBufferToBase64(iv),
      salt |-> arrayBufferToBase64(salt)]

Returned(str) == [ok |-> TRUE, value |-> str, error |-> ""]
Thrown(msg) == [ok |-> FALSE, value |-> <<>>, error |-> msg]

\* A decryptData that reports malformed base64 input with an error of its own.
decryptDataNamingCause(params) ==
  LET salt == base64ToArrayBuffer(params.salt)
      iv == base64ToArrayBuffer(params.iv)
      encryptedData == base64ToArrayBuffer(params.encrypted)
  IN IF ~salt.ok \/ ~iv.ok \/ ~encryptedData.ok
     THEN Thrown("Decryption failed: Malformed input")
     ELSE LET key == deriveKey(params.masterPassword, salt.bytes)
              decryptedBuffer == AesGcmDecrypt(key, iv.bytes, encryptedData.bytes)
          IN IF ~decryptedBuffer.ok
             THEN Thrown(DecryptionFailedMessage)
             ELSE Returned(TextDecode(decryptedBuffer.bytes))

decryptData(params) ==
  LET salt == base64ToArrayBuffer(params.salt)
      iv == base64ToArrayBuffer(params.iv)
      encryptedData == base64ToArrayBuffer(params.encrypted)
  IN IF ~salt.ok \/ ~iv.ok \/ ~encryptedData.ok
     THEN Thrown(DecryptionFailedMessage)
     ELSE LET key == deriveKey(params.masterPassword, salt.bytes)
              decryptedBuffer == AesGcmDecrypt(key, iv.bytes, encryptedData.bytes)
          IN IF ~decryptedBuffer.ok
             THEN Thrown(DecryptionFailedMessage)
             ELSE Returned(TextDecode(decryptedBuffer.bytes))

(***************************************************************************)
(* Input domains: plaintexts, passwords, the values crypto.getRandomValues *)
(* may return, and the bit a caller may change.                            *)
(***************************************************************************)
PlainUnits == {107, 65279, 55357, 56832}
Plaintexts == UNION {[1..n -> PlainUnits] : n \in 0..MaxPlainLen}
Passwords == {<<109>>, <<110>>, <<55296>>, <<56320>>}
RandomByteValues == {17, 167}
RandomValues(n) == {[i \in 1..n |-> v] : v \in RandomByteValues}
BitMasks == {1, 2, 4, 8, 16, 32, 64, 128, 256}
ByteBitMasks == {1, 2, 4, 8, 16, 32, 64, 128}

FlipBit(c, mask) == IF (c \div mask) % 2 = 1 THEN c - mask ELSE c + mask

NoResult == [encrypted |-> <<>>, iv |-> <<>>, salt |-> <<>>]
NoParams == [encrypted |-> <<>>, iv |-> <<>>, salt |-> <<>>, masterPassword |-> <<>>]
NoOutcome == [ok |-> FALSE, value |-> <<>>, error |-> ""]

(***************************************************************************)
(* validateMasterPassword: five independent rules, one message per unmet   *)
(* rule, in the order of the source.                                       *)
(***************************************************************************)
HasUnit(password, units) == \E i \in 1..Len(password) : password[i] \in units

LowerCase == 97..122
UpperCase == 65..90
Digits == 48..57

\* A validateMasterPassword that stops at the first unmet rule.
validateFirstRuleOnly(password) ==
  LET errors ==
        IF Len(password) < MinPasswordLength
          THEN <<"Password must be at least 16 characters">>
        ELSE IF ~HasUnit(password, LowerCase)
          THEN <<"Password must contain lowercase letters">>
        ELSE IF ~HasUnit(password, UpperCase)
          THEN <<"Password must contain uppercase letters">>
        ELSE IF ~HasUnit(password, Digits)
          THEN <<"Password must contain numbers">>
        ELSE IF \A i \in 1..Len(password) :
                  password[i] \in LowerCase \cup UpperCase \cup Digits
          THEN <<"Password must contain special characters">>
        ELSE <<>>
  IN [valid |-> Len(errors) = 0, errors |-> errors]

validateMasterPassword(password) ==
  LET errors ==
        (IF Len(password) < MinPasswordLength
           THEN <<"Password must be at least 16 characters">> ELSE <<>>)
        \o (IF ~HasUnit(password, LowerCase)
              THEN <<"Password must contain lowercase letters">> ELSE <<>>)
        \o (IF ~HasUnit(password, UpperCase)
              THEN <<"Password must contain uppercase letters">> ELSE <<>>)
        \o (IF ~HasUnit(password, Digits)
              THEN <<"Password must contain numbers">> ELSE <<>>)
        \o (IF \A i \in 1..Len(password) :
                 password[i] \in LowerCase \cup UpperCase \cup Digits
              THEN <<"Password must contain special characters">> ELSE <<>>)
  IN [valid |-> Len(errors) = 0, errors |-> errors]

(***************************************************************************)
(* The vault API routes, as functions of the two tables.  fault is what    *)
(* the storage layer does to the route's first write or query: "none" or   *)
(* "storage" (the query returns an error).  Each returns the new tables    *)
(* and the JSON response: ok is response.ok (a 2xx status).                *)
(***************************************************************************)
Response(ok, success, rows, msg) ==
  [ok |-> ok, success |-> success, vaults |-> rows, error |-> msg]

AuditRow(vaultId, userId, action, success) ==
  [vault_id |-> vaultId, user_id |-> userId, action |-> action, success |-> success]

RECURSIVE Reverse(_)
Reverse(q) == IF Len(q) = 0 THEN <<>> ELSE Append(Reverse(Tail(q)), Head(q))

\* A list route that does not filter on is_active.
ListRouteAllRows(userId, table, log, fault) ==
  IF fault = "storage"
  THEN [table |-> table, log |-> log,
        response |-> Response(FALSE, FALSE, <<>>, "Failed to retrieve vaults")]
  ELSE [table |-> table,
        log |-> Append(log, AuditRow(0, userId, "list", "unset")),
        response |-> Response(TRUE, TRUE,
                       Reverse(SelectSeq(table, LAMBDA r : r.user_id = userId)),
                       "")]

\* GET /api/vault/list
ListRoute(userId, table, log, fault) ==
  IF fault = "storage"
  THEN [table |-> table, log |-> log,
        response |-> Response(FALSE, FALSE, <<>>, "Failed to retrieve vaults")]
  ELSE [table |-> table,
        log |-> Append(log, AuditRow(0, userId, "list", "unset")),
        response |-> Response(TRUE, TRUE,
                       Reverse(SelectSeq(table,
                                 LAMBDA r : r.user_id = userId /\ r.is_active)),
                       "")]

\* A store route whose audit write replaces the log by the new record.
StoreRouteRotatingLog(body, table, log, fault) ==
  IF body.userId = 0 \/ Len(body.encryptedApiKey) = 0
     \/ Len(body.encryptionIv) = 0 \/ Len(body.encryptionSalt) = 0
  THEN [table |-> table, log |-> log,
        response |-> Response(FALSE, FALSE, <<>>, "Missing required fields")]
  ELSE IF fault = "storage"
  THEN [table |-> table, log |-> log,
        response |-> Response(FALSE, FALSE, <<>>, "Failed to store encrypted API key")]
  ELSE LET id == Len(table) + 1
       IN [table |-> Append(table,
                       [id |-> id,
                        user_id |-> body.userId,
                        encrypted_api_key |-> body.encryptedApiKey,
                        encrypted_api_secret |-> body.encryptedApiSecret,
                        encryption_iv |-> body.encryptionIv,
                        encryption_salt |-> body.encryptionSalt,
                        last_accessed_at |-> 0,
                        is_active |-> TRUE]),
           log |-> <<AuditRow(id, body.userId, "store", "unset")>>,
           response |-> Response(TRUE, TRUE, <<>>, "")]

\* POST /api/vault/store
StoreRoute(body, table, log, fault) ==
  IF body.userId = 0 \/ Len(body.encryptedApiKey) = 0
     \/ Len(body.encryptionIv) = 0 \/ Len(body.encryptionSalt) = 0
  THEN [table |-> table, log |-> log,
        response |-> Response(FALSE, FALSE, <<>>, "Missing required fields")]
  ELSE IF fault = "storage"
  THEN [table |-> table, log |-> log,
        response |-> Response(FALSE, FALSE, <<>>, "Failed to store encrypted API key")]
  ELSE LET id == Len(table) + 1
       IN [table |-> Append(table,
                       [id |-> id,
                        user_id |-> body.userId,
                        encrypted_api_key |-> body.encryptedApiKey,
                        encrypted_api_secret |-> body.encryptedApiSecret,
                        encryption_iv |-> body.encryptionIv,
                        encryption_salt |-> body.encryptionSalt,
                        last_accessed_at |-> 0,
                        is_active |-> TRUE]),
           log |-> Append(log, AuditRow(id, body.userId, "store", "unset")),
           response |-> Response(TRUE, TRUE, <<>>, "")]

\* A delete route whose update matches the vault id alone.
DeleteRouteAnyOwner(vaultId, userId, table, log, fault) ==
  IF fault = "storage"
  THEN [table |-> table, log |-> log,
        response |-> Response(FALSE, FALSE, <<>>, "Failed to delete vault")]
  ELSE [table |-> [i \in 1..Len(table) |->
                     IF table[i].id = vaultId
                     THEN [table[i] EXCEPT !.is_active = FALSE]
                     ELSE table[i]],
        log |-> Append(log, AuditRow(vaultId, userId, "delete", "true")),
        response |-> Response(TRUE, TRUE, <<>>, "")]

\* DELETE /api/vault/delete
DeleteRoute(vaultId, userId, table, log, fault) ==
  IF fault = "storage"
  THEN [table |-> table, log |-> log,
        response |-> Response(FALSE, FALSE, <<>>, "Failed to delete vault")]
  ELSE [table |-> [i \in 1..Len(table) |->
                     IF table[i].id = vaultId /\ table[i].user_id = userId
                     THEN [table[i] EXCEPT !.is_active = FALSE]
                     ELSE table[i]],
        log |-> Append(log, AuditRow(vaultId, userId, "delete", "true")),
        response |-> Response(TRUE, TRUE, <<>>, "")]

(***************************************************************************)
(* The vault page.                                                         *)
(***************************************************************************)
UserId == 1

\* Master passwords the user types: two that pass the policy ("Aa1!xxxxxxxxxxxx",
\* "Bb2?yyyyyyyyyyyy") and one that does not ("w").
MasterA == <<65, 97, 49, 33>> \o [i \in 1..12 |-> 120]
MasterB == <<66, 98, 50, 63>> \o [i \in 1..12 |-> 121]
MasterWeak == <<119>>
TypedPasswords == {MasterA, MasterB, MasterWeak}

\* What the user enters in the add form: an API key and an optional secret.
FormKeys == {<<107>>}
FormSecrets == {<<>>, <<115>>}

\* The random values the add form's encryptData calls draw: both salt values,
\* so that the secret's salt may equal the key's or differ from it, and one iv.
FormIvs == {[i \in 1..IV_LENGTH |-> 17]}

Faults == {"none", "storage", "network"}

NoDecrypted == [apiKey |-> <<>>, apiSecret |-> <<>>]

\* A VaultItem as the list endpoint returns it: no decrypted field yet.
VaultItemOf(row) ==
  [id |-> row.id,
   encrypted_api_key |-> row.encrypted_api_key,
   encrypted_api_secret |-> row.encrypted_api_secret,
   encryption_iv |-> row.encryption_iv,
   encryption_salt |-> row.encryption_salt,
   hasDecrypted |-> FALSE,
   decrypted |-> NoDecrypted]

VaultItemsOf(rows) == [i \in 1..Len(rows) |-> VaultItemOf(rows[i])]

NoItem ==
  [id |-> 0, encrypted_api_key |-> <<>>, encrypted_api_secret |-> <<>>,
   encryption_iv |-> <<>>, encryption_salt |-> <<>>,
   hasDecrypted |-> FALSE, decrypted |-> NoDecrypted]

NoResponse == Response(FALSE, FALSE, <<>>, "")

NoBody ==
  [userId |-> 0, encryptedApiKey |-> <<>>, encryptedApiSecret |-> <<>>,
   encryptionIv |-> <<>>, encryptionSalt |-> <<>>]

\* A handler invocation suspended at an await, with the values its closure
\* captured from the render it was started in.
Task(kind, pc) ==
  [kind |-> kind, pc |-> pc,
   masterPassword |-> <<>>, vaults |-> <<>>, revealedKeys |-> {},
   autoLockTimer |-> 0,
   vault |-> NoItem, vaultId |-> 0, body |-> NoBody,
   decryptedKey |-> <<>>]

RemoveAt(q, k) == SubSeq(q, 1, k - 1) \o SubSeq(q, k + 1, Len(q))

\* setTimeout returns an id no earlier call returned; ids that nothing refers
\* to any more are renamed to the smallest unused number.
UsedTimerIds ==
  {t.id : t \in timers} \cup {t.closureTimer : t \in timers}
    \cup {autoLockTimer} \cup {tasks[k].autoLockTimer : k \in 1..Len(tasks)}

FreshTimerId ==
  CHOOSE n \in 1..(Cardinality(UsedTimerIds) + 1) :
    n \notin UsedTimerIds /\ \A m \in 1..(n - 1) : m \in UsedTimerIds

\* clearTimeout(id) applied to the pending timeouts.
ClearTimeout(pending, id) == {t \in pending : t.id # id}

\* resetAutoLock as run by a handler whose closure holds closureTimer.
ResetAutoLock(closureTimer) ==
  /\ timers' = ClearTimeout(timers, closureTimer)
                 \cup {[id |-> FreshTimerId, remaining |-> AutoLockTicks,
                        closureTimer |-> closureTimer]}
  /\ autoLockTimer' = FreshTimerId
  /\ idle' = 0

\* A lockVault that leaves the vault items and the revealed set in state.
LockVaultKeepingItems(pending, closureTimer) ==
  /\ isUnlocked' = FALSE
  /\ masterPassword' = <<>>
  /\ UNCHANGED <<vaults, revealedKeys>>
  /\ timers' = ClearTimeout(pending, closureTimer)
  /\ idle' = 0

\* lockVault as run from a closure that holds closureTimer.
LockVault(pending, closureTimer) ==
  /\ isUnlocked' = FALSE
  /\ masterPassword' = <<>>
  /\ vaults' = <<>>
  /\ revealedKeys' = {}
  /\ timers' = ClearTimeout(pending, closureTimer)
  /\ idle' = 0

\* Audit rows the requests in flight will still write.
PendingAuditWrites(task) ==
  IF task.pc = "store" THEN 2
  ELSE IF task.pc \in {"list", "delete"} THEN 1
  ELSE 0

RECURSIVE SumPending(_)
SumPending(q) == IF Len(q) = 0 THEN 0 ELSE PendingAuditWrites(Head(q)) + SumPending(Tail(q))

AuditBudget == MaxAudit - Len(vault_audit_log) - SumPending(tasks)

PendingStores ==
  Cardinality({k \in 1..Len(tasks) : tasks[k].pc = "store"})

PageInit ==
  /\ isUnlocked = FALSE
  /\ masterPassword = <<>>
  /\ vaults = <<>>
  /\ showAddForm = FALSE
  /\ loading = FALSE
  /\ error = <<>>
  /\ autoLockTimer = 0
  /\ revealedKeys = {}
  /\ tasks = <<>>
  /\ timers = {}
  /\ clipboard = <<>>
  /\ clipTimers = 0
  /\ idle = 0
  /\ api_vault = <<>>
  /\ vault_audit_log = <<>>

\* What a fetch of the vault API resolves to when the handler resumes: the
\* server handles the request then (fault "none" or "storage"), or the fetch
\* is rejected and the server never sees it (fault "network").
ListFetch(fault) ==
  IF fault = "network"
  THEN [table |-> api_vault, log |-> vault_audit_log, response |-> NoResponse]
  ELSE ListRoute(UserId, api_vault, vault_audit_log, fault)

StoreFetch(body, fault) ==
  IF fault = "network"
  THEN [table |-> api_vault, log |-> vault_audit_log, response |-> NoResponse]
  ELSE StoreRoute(body, api_vault, vault_audit_log, fault)

DeleteFetch(vaultId, fault) ==
  IF fault = "network"
  THEN [table |-> api_vault, log |-> vault_audit_log, response |-> NoResponse]
  ELSE DeleteRoute(vaultId, UserId, api_vault, vault_audit_log, fault)

\* onChange of the master password input, which only the locked render shows.
\* (The user types between requests, not while one is pending.)
TypeMasterPassword ==
  /\ ~isUnlocked /\ ~loading
  /\ \E m \in TypedPasswords : masterPassword' = m
  /\ UNCHANGED <<isUnlocked, vaults, showAddForm, loading, error, autoLockTimer,
                 revealedKeys, browserVars, serverVars, cryptoVars>>

\* unlockVault up to its await: the policy check, then the list request.
UnlockSubmit ==
  /\ ~isUnlocked /\ ~loading /\ masterPassword # <<>>
  /\ LET validation == validateMasterPassword(masterPassword)
     IN IF ~validation.valid
        THEN /\ error' = validation.errors
             /\ UNCHANGED <<loading, tasks>>
        ELSE /\ Len(tasks) < MaxTasks /\ AuditBudget >= 1
             /\ error' = <<>>
             /\ loading' = TRUE
             /\ tasks' = Append(tasks, [Task("unlock", "list") EXCEPT
                                          !.autoLockTimer = autoLockTimer])
  /\ UNCHANGED <<isUnlocked, masterPassword, vaults, showAddForm, autoLockTimer,
                 revealedKeys, timers, clipboard, clipTimers, idle, serverVars,
                 cryptoVars>>

\* unlockVault from the list response on.
UnlockFinish(k) ==
  /\ tasks[k].kind = "unlock" /\ tasks[k].pc = "list"
  /\ \E fault \in Faults :
       LET out == ListFetch(fault)
       IN /\ api_vault' = out.table
          /\ vault_audit_log' = out.log
          /\ IF fault = "network"
             THEN /\ error' = <<"Failed to unlock vault">>
                  /\ UNCHANGED <<vaults, isUnlocked, timers, autoLockTimer, idle>>
             ELSE IF out.response.success
             THEN /\ vaults' = VaultItemsOf(out.response.vaults)
                  /\ isUnlocked' = TRUE
                  /\ ResetAutoLock(tasks[k].autoLockTimer)
                  /\ UNCHANGED error
             ELSE UNCHANGED <<error, vaults, isUnlocked, timers, autoLockTimer, idle>>
  /\ tasks' = RemoveAt(tasks, k)
  /\ loading' = FALSE
  /\ UNCHANGED <<masterPassword, showAddForm, revealedKeys, clipboard, clipTimers,
                 cryptoVars>>

\* onClick of the add-form button.
ToggleAddForm ==
  /\ isUnlocked
  /\ showAddForm' = ~showAddForm
  /\ UNCHANGED <<isUnlocked, masterPassword, vaults, loading, error, autoLockTimer,
                 revealedKeys, browserVars, serverVars, cryptoVars>>

\* addToVault up to the store request: each value is encrypted with its own
\* fresh salt and iv, and the request carries the key's iv and salt only.
\* (The optional additional data is left empty.)
AddToVaultSubmit ==
  /\ isUnlocked /\ showAddForm /\ ~loading
  /\ Len(tasks) < MaxTasks /\ AuditBudget >= 2
  /\ Len(api_vault) + PendingStores < MaxEntries
  /\ \E apiKey \in FormKeys, apiSecret \in FormSecrets,
        salt1 \in RandomValues(SALT_LENGTH), iv1 \in FormIvs,
        salt2 \in RandomValues(SALT_LENGTH), iv2 \in FormIvs :
       LET encryptedKey == encryptData(apiKey, masterPassword, salt1, iv1)
           encryptedSecret == IF apiSecret # <<>>
                                THEN encryptData(apiSecret, masterPassword, salt2, iv2)
                                ELSE NoResult
       IN tasks' = Append(tasks,
                     [Task("add", "store") EXCEPT
                        !.autoLockTimer = autoLockTimer,
                        !.body = [userId |-> UserId,
                                  encryptedApiKey |-> encryptedKey.encrypted,
                                  encryptedApiSecret |-> encryptedSecret.encrypted,
                                  encryptionIv |-> encryptedKey.iv,
                                  encryptionSalt |-> encryptedKey.salt]])
  /\ error' = <<>>
  /\ loading' = TRUE
  /\ UNCHANGED <<isUnlocked, masterPassword, vaults, showAddForm, autoLockTimer,
                 revealedKeys, timers, clipboard, clipTimers, idle, serverVars,
                 cryptoVars>>

\* addToVault from the store response to the list request.
AddToVaultStored(k) ==
  /\ tasks[k].kind = "add" /\ tasks[k].pc = "store"
  /\ \E fault \in Faults :
       LET out == StoreFetch(tasks[k].body, fault)
       IN /\ api_vault' = out.table
          /\ vault_audit_log' = out.log
          /\ IF fault = "network"
             THEN /\ error' = <<"Failed to add to vault">>
                  /\ loading' = FALSE
                  /\ tasks' = RemoveAt(tasks, k)
             ELSE IF out.response.success
             THEN /\ tasks' = [tasks EXCEPT ![k].pc = "list"]
                  /\ UNCHANGED <<error, loading>>
             ELSE /\ error' = <<out.response.error>>
                  /\ loading' = FALSE
                  /\ tasks' = RemoveAt(tasks, k)
  /\ UNCHANGED <<isUnlocked, masterPassword, vaults, showAddForm, autoLockTimer,
                 revealedKeys, timers, clipboard, clipTimers, idle, cryptoVars>>

\* addToVault from the refreshed list on.  (The list request that follows a
\* store is taken to reach the storage layer without a fault.)
AddToVaultFinish(k) ==
  /\ tasks[k].kind = "add" /\ tasks[k].pc = "list"
  /\ \E fault \in Faults \ {"storage"} :
       LET out == ListFetch(fault)
       IN /\ api_vault' = out.table
          /\ vault_audit_log' = out.log
          /\ IF fault = "network"
             THEN /\ error' = <<"Failed to add to vault">>
                  /\ UNCHANGED <<vaults, showAddForm, timers, autoLockTimer, idle>>
             ELSE /\ vaults' = VaultItemsOf(out.response.vaults)
                  /\ showAddForm' = FALSE
                  /\ ResetAutoLock(tasks[k].autoLockTimer)
                  /\ UNCHANGED error
  /\ tasks' = RemoveAt(tasks, k)
  /\ loading' = FALSE
  /\ UNCHANGED <<isUnlocked, masterPassword, revealedKeys, clipboard, clipTimers,
                 cryptoVars>>

\* revealKey up to its first await: decryptData of the API key is started with
\* the master password, list and timer the render held.
RevealKeyStart ==
  /\ isUnlocked
  /\ Len(tasks) < MaxTasks /\ Cardinality(timers) < MaxTimers
  /\ \E i \in 1..Len(vaults) :
       /\ ~(vaults[i].id \in revealedKeys /\ vaults[i].hasDecrypted)
       /\ tasks' = Append(tasks,
                     [Task("reveal", "key") EXCEPT
                        !.vault = vaults[i],
                        !.masterPassword = masterPassword,
                        !.vaults = vaults,
                        !.revealedKeys = revealedKeys,
                        !.autoLockTimer = autoLockTimer])
  /\ UNCHANGED <<pageState, timers, clipboard, clipTimers, idle, serverVars,
                 cryptoVars>>

\* The tail of revealKey once both values are decrypted: the list the closure
\* held is updated, the id is added to the set the closure held, and the
\* auto-lock timer is reset.
RevealComplete(task, apiKey, apiSecret) ==
  /\ vaults' = [j \in 1..Len(task.vaults) |->
                  IF task.vaults[j].id = task.vault.id
                  THEN [task.vaults[j] EXCEPT
                          !.hasDecrypted = TRUE,
                          !.decrypted = [apiKey |-> apiKey, apiSecret |-> apiSecret]]
                  ELSE task.vaults[j]]
  /\ revealedKeys' = task.revealedKeys \cup {task.vault.id}
  /\ ResetAutoLock(task.autoLockTimer)
  /\ UNCHANGED error

RevealFailed ==
  /\ error' = <<"Failed to decrypt: Invalid master password">>
  /\ UNCHANGED <<vaults, revealedKeys, timers, autoLockTimer, idle>>

\* revealKey after decryptData of the API key settled: on success the second
\* decryptData (of the API secret, with the key's iv and salt) is started when
\* the entry has a secret.
RevealKeyDecrypted(k) ==
  /\ tasks[k].kind = "reveal" /\ tasks[k].pc = "key"
  /\ LET task == tasks[k]
         decryptedKey == decryptData([encrypted |-> task.vault.encrypted_api_key,
                                      iv |-> task.vault.encryption_iv,
                                      salt |-> task.vault.encryption_salt,
                                      masterPassword |-> task.masterPassword])
     IN IF ~decryptedKey.ok
        THEN /\ RevealFailed
             /\ tasks' = RemoveAt(tasks, k)
        ELSE IF task.vault.encrypted_api_secret # <<>>
        THEN /\ tasks' = [tasks EXCEPT ![k].pc = "secret",
                                       ![k].decryptedKey = decryptedKey.value]
             /\ UNCHANGED <<error, vaults, revealedKeys, timers, autoLockTimer, idle>>
        ELSE /\ RevealComplete(task, decryptedKey.value, <<>>)
             /\ tasks' = RemoveAt(tasks, k)
  /\ UNCHANGED <<isUnlocked, masterPassword, showAddForm, loading, clipboard,
                 clipTimers, serverVars, cryptoVars>>

\* revealKey after decryptData of the API secret settled.
RevealSecretDecrypted(k) ==
  /\ tasks[k].kind = "reveal" /\ tasks[k].pc = "secret"
  /\ LET task == tasks[k]
         decryptedSecret == decryptData([encrypted |-> task.vault.encrypted_api_secret,
                                         iv |-> task.vault.encryption_iv,
                                         salt |-> task.vault.encryption_salt,
                                         masterPassword |-> task.masterPassword])
     IN IF ~decryptedSecret.ok
        THEN RevealFailed
        ELSE RevealComplete(task, task.decryptedKey, decryptedSecret.value)
  /\ tasks' = RemoveAt(tasks, k)
  /\ UNCHANGED <<isUnlocked, masterPassword, showAddForm, loading, clipboard,
                 clipTimers, serverVars, cryptoVars>>

\* copyToClipboard, from the Copy button of a revealed value, while fewer than
\* limit deferred clears are pending.
CopyText(limit) ==
  /\ isUnlocked
  /\ clipTimers < limit
  /\ \E i \in 1..Len(vaults) :
       /\ vaults[i].id \in revealedKeys /\ vaults[i].hasDecrypted
       /\ \E text \in {vaults[i].decrypted.apiKey, vaults[i].decrypted.apiSecret} \ {<<>>} :
            clipboard' = text
  /\ clipTimers' = clipTimers + 1
  /\ UNCHANGED <<pageState, tasks, timers, idle, serverVars, cryptoVars>>

CopyToClipboard == CopyText(MaxCopies)

\* A deferred clear that leaves the clipboard alone once the vault is locked.
ClipboardClearWhileUnlocked ==
  /\ clipTimers > 0
  /\ clipboard' = IF isUnlocked THEN <<>> ELSE clipboard
  /\ clipTimers' = clipTimers - 1
  /\ UNCHANGED <<pageState, tasks, timers, idle, serverVars, cryptoVars>>

\* The deferred clear that copyToClipboard scheduled runs.
ClipboardClear ==
  /\ clipTimers > 0
  /\ clipboard' = <<>>
  /\ clipTimers' = clipTimers - 1
  /\ UNCHANGED <<pageState, tasks, timers, idle, serverVars, cryptoVars>>

\* deleteVault up to its await (the user confirmed the dialog).
DeleteVaultStart ==
  /\ isUnlocked
  /\ Len(tasks) < MaxTasks /\ AuditBudget >= 1
  /\ \E i \in 1..Len(vaults) :
       tasks' = Append(tasks, [Task("delete", "delete") EXCEPT
                                 !.vaultId = vaults[i].id,
                                 !.vaults = vaults])
  /\ UNCHANGED <<pageState, timers, clipboard, clipTimers, idle, serverVars,
                 cryptoVars>>

\* deleteVault from the response on.
DeleteVaultFinish(k) ==
  /\ tasks[k].kind = "delete" /\ tasks[k].pc = "delete"
  /\ \E fault \in Faults :
       LET out == DeleteFetch(tasks[k].vaultId, fault)
       IN /\ api_vault' = out.table
          /\ vault_audit_log' = out.log
          /\ IF fault = "network"
             THEN /\ error' = <<"Failed to delete vault">>
                  /\ UNCHANGED vaults
             ELSE IF out.response.ok
             THEN /\ vaults' = SelectSeq(tasks[k].vaults,
                                         LAMBDA v : v.id # tasks[k].vaultId)
                  /\ UNCHANGED error
             ELSE UNCHANGED <<error, vaults>>
  /\ tasks' = RemoveAt(tasks, k)
  /\ UNCHANGED <<isUnlocked, masterPassword, showAddForm, loading, autoLockTimer,
                 revealedKeys, timers, clipboard, clipTimers, idle, cryptoVars>>

\* onClick of Lock Vault: lockVault of the current render.
LockVaultClick ==
  /\ isUnlocked
  /\ LockVault(timers, autoLockTimer)
  /\ UNCHANGED <<showAddForm, loading, error, autoLockTimer, tasks, clipboard,
                 clipTimers, serverVars, cryptoVars>>

\* An auto-lock timeout expires: lockVault of the render whose handler armed it.
AutoLockFire ==
  /\ \E t \in timers :
       /\ t.remaining = 0
       /\ LockVault(timers \ {t}, t.closureTimer)
  /\ UNCHANGED <<showAddForm, loading, error, autoLockTimer, tasks, clipboard,
                 clipTimers, serverVars, cryptoVars>>

\* One minute passes; a timeout that is due runs before time passes further.
Tick ==
  /\ \A t \in timers : t.remaining > 0
  /\ clipTimers = 0
  /\ timers' = {[t EXCEPT !.remaining = @ - 1] : t \in timers}
  /\ idle' = IF isUnlocked /\ idle <= AutoLockTicks THEN idle + 1 ELSE idle
  /\ UNCHANGED <<pageState, tasks, clipboard, clipTimers, serverVars, cryptoVars>>

(***************************************************************************)
(* The master-password routes: POST /api/vault/master/init and             *)
(* POST /api/vault/verify-master, over the users table.                    *)
(***************************************************************************)
MaxInitRequests == 2

MasterSaltLength == 32

OtherUserId == 2
UserIds == {UserId, OtherUserId}

\* Buffer.toString('hex'): two lowercase hex digits per byte.
HexDigit(n) == IF n < 10 THEN 48 + n ELSE 87 + n

ToHex(bytes) ==
  [i \in 1..(2 * Len(bytes)) |->
     IF i % 2 = 1 THEN HexDigit(bytes[(i + 1) \div 2] \div 16)
     ELSE HexDigit(bytes[i \div 2] % 16)]

\* pbkdf2Sync(password, salt, 600000, 64, 'sha512') of the two strings' UTF-8
\* bytes, modelled like deriveKey by a keyed polynomial hash; the salt, a
\* string of hex digits whose UTF-8 bytes are its character codes, enters
\* the hash through the digests of its blocks of 16 characters.
SaltBlocks(salt) ==
  [j \in 1..((Len(salt) + 15) \div 16) |->
     PolyHash(SubSeq(salt, 16 * (j - 1) + 1,
                     IF 16 * j < Len(salt) THEN 16 * j ELSE Len(salt)))]

hashMasterPassword(password, salt) ==
  PolyHash(TextEncode(password) \o <<256>> \o SaltBlocks(salt))

\* A users row before init: master_password_hash -1 stands for null.
NoUser ==
  [vault_initialized |-> FALSE, master_password_hash |-> -1,
   master_password_salt |-> <<>>]

MasterResponse(route, userId, status, msg) ==
  [route |-> route, userId |-> userId, status |-> status, error |-> msg,
   success |-> FALSE, initialized |-> FALSE, valid |-> FALSE]

NoMasterResponse == MasterResponse("", 0, 0, "")

\* The master passwords a request body carries: "m", two strings that are
\* each a lone surrogate, and <<>> for a missing field.
MasterPasswords == {<<109>>, <<55296>>, <<56320>>}
RequestPasswords == MasterPasswords \cup {<<>>}

MasterIdle ==
  /\ users = [u \in UserIds |-> NoUser]
  /\ initRequests = <<>>
  /\ masterResponse = NoMasterResponse
  /\ initSucceeded = <<>>

(***************************************************************************)
(* The API-key routes: POST /api/keys/create, /api/keys/verify-pin and     *)
(* /api/keys/test, over the api_keys and audit_logs tables.  fault is      *)
(* "none", "storage" (the select returns an error) or "audit" (the insert  *)
(* into audit_logs, whose result the routes do not look at, fails).        *)
(***************************************************************************)
\* The server's clock readings a route may stamp a row with; 0 stands for
\* the null of a row never stamped.
MaxServerClock == 2
ServerTimes == 1..MaxServerClock

MaxKeys == 2
MaxKeyAudit == 3

\* bcrypt.hash(s, 10) with the salt it drew, and bcrypt.compare: the digest
\* is a keyed polynomial hash of the string's bytes and the salt.
bcryptHash(str, salt) ==
  [salt |-> salt, digest |-> PolyHash(TextEncode(str) \o <<256, salt>>)]

bcryptCompare(str, hash) ==
  PolyHash(TextEncode(str) \o <<256, hash.salt>>) = hash.digest

Pins == {<<49>>, <<50>>}
ApiKeys == {<<107>>, <<106>>}
KeyIds == 1..(MaxKeys + 1)
KeyFaults == {"none", "storage", "audit"}

KeyAuditRow(userId, keyId, action) ==
  [user_id |-> userId, api_key_id |-> keyId, action |-> action]

KeysResponse(route, keyId, userId, supplied, status, msg) ==
  [route |-> route, keyId |-> keyId, userId |-> userId, supplied |-> supplied,
   status |-> status, error |-> msg, pin_verified |-> FALSE, success |-> FALSE]

NoKeysResponse == KeysResponse("", 0, 0, <<>>, 0, "")

\* A key of account 1, created with API key "k" and PIN "1" and deactivated
\* in the database since.
DeactivatedKey ==
  [id |-> 1, user_id |-> UserId,
   key_hash |-> bcryptHash(<<107>>, 17), pin_hash |-> bcryptHash(<<49>>, 17),
   is_active |-> FALSE, last_used_at |-> 0]

KeysIdle ==
  /\ api_keys = <<>>
  /\ audit_logs = <<>>
  /\ keysResponse = NoKeysResponse
  /\ keySecrets = <<>>

KeysStart ==
  /\ api_keys = <<DeactivatedKey>>
  /\ audit_logs = <<>>
  /\ keysResponse = NoKeysResponse
  /\ keySecrets = <<[apiKey |-> <<107>>, pin |-> <<49>>]>>

\* A verify-pin route that writes its audit record before it compares.
VerifyPinRouteLoggingFirst(keyId, pin, userId, table, log, fault) ==
  LET found == SelectSeq(table, LAMBDA r : r.id = keyId)
      logged == IF fault = "audit" THEN log
                ELSE Append(log, KeyAuditRow(userId, keyId, "API_KEY_VIEWED"))
  IN IF keyId = 0 \/ Len(pin) = 0 \/ userId = 0
     THEN [table |-> table, log |-> log,
           response |-> KeysResponse("verify-pin", keyId, userId, pin, 400,
                                     "Missing required fields")]
     ELSE IF fault = "storage" \/ Len(found) # 1
     THEN [table |-> table, log |-> log,
           response |-> KeysResponse("verify-pin", keyId, userId, pin, 404,
                                     "API key not found")]
     ELSE IF ~bcryptCompare(pin, found[1].pin_hash)
     THEN [table |-> table, log |-> logged,
           response |-> KeysResponse("verify-pin", keyId, userId, pin, 401,
                                     "Invalid PIN")]
     ELSE [table |-> table, log |-> logged,
           response |-> [KeysResponse("verify-pin", keyId, userId, pin, 200, "")
                           EXCEPT !.pin_verified = TRUE]]

\* POST /api/keys/verify-pin
VerifyPinRoute(keyId, pin, userId, table, log, fault) ==
  LET found == SelectSeq(table, LAMBDA r : r.id = keyId)
  IN IF keyId = 0 \/ Len(pin) = 0 \/ userId = 0
     THEN [table |-> table, log |-> log,
           response |-> KeysResponse("verify-pin", keyId, userId, pin, 400,
                                     "Missing required fields")]
     ELSE IF fault = "storage" \/ Len(found) # 1
     THEN [table |-> table, log |-> log,
           response |-> KeysResponse("verify-pin", keyId, userId, pin, 404,
                                     "API key not found")]
     ELSE IF ~bcryptCompare(pin, found[1].pin_hash)
     THEN [table |-> table, log |-> log,
           response |-> KeysResponse("verify-pin", keyId, userId, pin, 401,
                                     "Invalid PIN")]
     ELSE [table |-> table,
           log |-> IF fault = "audit" THEN log
                   ELSE Append(log, KeyAuditRow(userId, keyId, "API_KEY_VIEWED")),
           response |-> [KeysResponse("verify-pin", keyId, userId, pin, 200, "")
                           EXCEPT !.pin_verified = TRUE]]

\* POST /api/keys/test, answered when the server's clock reads now.
TestKeyRoute(keyId, apiKey, userId, table, log, fault, now) ==
  LET found == SelectSeq(table, LAMBDA r : r.id = keyId /\ r.is_active)
  IN IF keyId = 0 \/ Len(apiKey) = 0 \/ userId = 0
     THEN [table |-> table, log |-> log,
           response |-> KeysResponse("test", keyId, userId, apiKey, 400,
                                     "Missing required fields")]
     ELSE IF fault = "storage" \/ Len(found) # 1
     THEN [table |-> table, log |-> log,
           response |-> KeysResponse("test", keyId, userId, apiKey, 401,
                                     "Invalid or inactive API key")]
     ELSE IF ~bcryptCompare(apiKey, found[1].key_hash)
     THEN [table |-> table, log |-> log,
           response |-> KeysResponse("test", keyId, userId, apiKey, 401,
                                     "API key verification failed")]
     ELSE [table |-> [i \in 1..Len(table) |->
                        IF table[i].id = keyId
                        THEN [table[i] EXCEPT !.last_used_at = now]
                        ELSE table[i]],
           log |-> IF fault = "audit" THEN log
                   ELSE Append(log, KeyAuditRow(userId, keyId, "API_ENDPOINT_ACCESSED")),
           response |-> [KeysResponse("test", keyId, userId, apiKey, 200, "")
                           EXCEPT !.success = TRUE]]

\* POST /api/keys/create: the key and the PIN are stored as bcrypt hashes.
KeysCreate ==
  /\ Len(api_keys) < MaxKeys /\ Len(audit_logs) < MaxKeyAudit
  /\ \E userId \in UserIds, apiKey \in ApiKeys, pin \in Pins,
        salt \in RandomByteValues :
       LET id == Len(api_keys) + 1
       IN /\ api_keys' = Append(api_keys,
                            [id |-> id, user_id |-> userId,
                             key_hash |-> bcryptHash(apiKey, salt),
                             pin_hash |-> bcryptHash(pin, salt),
                             is_active |-> TRUE, last_used_at |-> 0])
          /\ audit_logs' = Append(audit_logs,
                                  KeyAuditRow(userId, id, "API_KEY_CREATED"))
          /\ keysResponse' = KeysResponse("create", id, userId, <<>>, 200, "")
          /\ keySecrets' = Append(keySecrets, [apiKey |-> apiKey, pin |-> pin])
  /\ UNCHANGED <<masterVars, demoVars, libState, pageState, browserVars, serverVars>>

KeysStep(out) ==
  /\ api_keys' = out.table
  /\ audit_logs' = out.log
  /\ keysResponse' = out.response
  /\ UNCHANGED <<keySecrets, masterVars, demoVars, libState, pageState, browserVars,
                 serverVars>>

\* A verify-pin request, answered.
KeysVerifyPin ==
  /\ Len(audit_logs) < MaxKeyAudit
  /\ \E keyId \in KeyIds, pin \in Pins \cup {<<>>}, userId \in UserIds,
        fault \in KeyFaults :
       KeysStep(VerifyPinRoute(keyId, pin, userId, api_keys, audit_logs, fault))

\* A keys/test request, answered.
KeysTest ==
  /\ Len(audit_logs) < MaxKeyAudit
  /\ \E keyId \in KeyIds, apiKey \in ApiKeys \cup {<<>>}, userId \in UserIds,
        fault \in KeyFaults, now \in ServerTimes :
       KeysStep(TestKeyRoute(keyId, apiKey, userId, api_keys, audit_logs, fault, now))

NextKeys ==
  \/ KeysCreate
  \/ KeysVerifyPin
  \/ KeysTest

(***************************************************************************)
(* The workflow demo: runDemo walks through six steps, five of which send  *)
(* a request; resetDemo puts every step back to pending.                   *)
(***************************************************************************)
StepCount == 6
StepIds == 1..StepCount

\* The steps that await a fetch; step 3 only sleeps.
RequestSteps == {1, 2, 4, 5, 6}

DemoNotRunning == [step |-> 0, at |-> "idle"]

DemoIdle ==
  /\ steps = [i \in StepIds |-> "pending"]
  /\ isRunning = FALSE
  /\ demoFields = {}
  /\ demoPc = DemoNotRunning

\* updateStep(id, { status })
updateStep(s, id, status) == [s EXCEPT ![id] = status]

\* onClick of Run Complete Demo: runDemo up to its first await.
RunDemo ==
  /\ ~isRunning
  /\ isRunning' = TRUE
  /\ demoFields' = demoFields \cup {"credentials", "pin"}
  /\ steps' = updateStep(steps, 1, "loading")
  /\ demoPc' = [step |-> 1, at |-> "request"]
  /\ UNCHANGED <<masterVars, keysVars, libState, pageState, browserVars, serverVars>>

\* The request of the step in progress is answered (or, in step 3, the sleep
\* ends): on success the step is marked and runDemo sleeps or, after the last
\* step, returns; on failure the catch block marks the loading steps.
DemoStepAnswered ==
  /\ demoPc.at = "request"
  /\ \E ok \in IF demoPc.step \in RequestSteps THEN BOOLEAN ELSE {TRUE} :
       IF ok
       THEN /\ steps' = updateStep(steps, demoPc.step, "success")
            /\ demoFields' = demoFields
                               \cup (IF demoPc.step = 1 THEN {"userId"} ELSE {})
                               \cup (IF demoPc.step = 4 THEN {"apiKeyId", "apiKey"} ELSE {})
            /\ IF demoPc.step = StepCount
               THEN isRunning' = FALSE /\ demoPc' = DemoNotRunning
               ELSE isRunning' = isRunning /\ demoPc' = [demoPc EXCEPT !.at = "sleep"]
       ELSE /\ steps' = [i \in StepIds |->
                           IF steps[i] = "loading" THEN "error" ELSE steps[i]]
            /\ isRunning' = FALSE
            /\ demoPc' = DemoNotRunning
            /\ UNCHANGED demoFields
  /\ UNCHANGED <<masterVars, keysVars, libState, pageState, browserVars, serverVars>>

\* The sleep after a successful step ends and the next step starts loading.
DemoNextStep ==
  /\ demoPc.at = "sleep"
  /\ steps' = updateStep(steps, demoPc.step + 1, "loading")
  /\ demoPc' = [step |-> demoPc.step + 1, at |-> "request"]
  /\ UNCHANGED <<isRunning, demoFields, masterVars, keysVars, libState, pageState,
                 browserVars, serverVars>>

\* onClick of Reset.
ResetDemo ==
  /\ ~isRunning
  /\ steps' = [i \in StepIds |-> "pending"]
  /\ demoFields' = {}
  /\ UNCHANGED <<isRunning, demoPc, masterVars, keysVars, libState, pageState,
                 browserVars, serverVars>>

NextDemo ==
  \/ RunDemo
  \/ DemoStepAnswered
  \/ DemoNextStep
  \/ ResetDemo

OtherIdle == MasterIdle /\ KeysIdle /\ DemoIdle

\* POST /api/vault/verify-master
VerifyMasterRoute(userId, password, table, fault) ==
  IF userId = 0 \/ Len(password) = 0
  THEN MasterResponse("verify", userId, 400, "User ID and master password required")
  ELSE IF fault = "storage"
  THEN MasterResponse("verify", userId, 500, "Failed to verify master password")
  ELSE IF ~table[userId].vault_initialized
  THEN MasterResponse("verify", userId, 200, "")
  ELSE [MasterResponse("verify", userId, 200, "") EXCEPT
          !.initialized = TRUE,
          !.valid = (hashMasterPassword(password, table[userId].master_password_salt)
                       = table[userId].master_password_hash)]

\* The init route up to its update: the body is checked and vault_initialized
\* is read; a request that passes waits for its update.
MasterInitSelect ==
  /\ Len(initRequests) < MaxInitRequests
  /\ \E userId \in UserIds, password \in RequestPasswords,
        fault \in {"none", "storage"} :
       IF Len(password) = 0
       THEN /\ masterResponse' = MasterResponse("init", userId, 400,
                                    "User ID and master password required")
            /\ UNCHANGED initRequests
       ELSE IF fault = "storage"
       THEN /\ masterResponse' = MasterResponse("init", userId, 500,
                                    "Failed to initialize master password")
            /\ UNCHANGED initRequests
       ELSE IF users[userId].vault_initialized
       THEN /\ masterResponse' = MasterResponse("init", userId, 400,
                                    "Master password already initialized")
            /\ UNCHANGED initRequests
       ELSE /\ initRequests' = Append(initRequests,
                                  [userId |-> userId, masterPassword |-> password])
            /\ UNCHANGED masterResponse
  /\ UNCHANGED <<users, initSucceeded, keysVars, demoVars, libState, pageState, browserVars,
                 serverVars>>

\* The init route from its random salt on: the hash and the salt are written
\* and the request is answered.
MasterInitUpdate(k) ==
  /\ k \in 1..Len(initRequests)
  /\ LET req == initRequests[k]
     IN \E bytes \in RandomValues(MasterSaltLength), fault \in {"none", "storage"} :
          LET salt == ToHex(bytes)
              hash == hashMasterPassword(req.masterPassword, salt)
          IN IF fault = "storage"
             THEN /\ masterResponse' = MasterResponse("init", req.userId, 500,
                                          "Failed to initialize master password")
                  /\ UNCHANGED <<users, initSucceeded>>
             ELSE /\ users' = [users EXCEPT ![req.userId] =
                                  [vault_initialized |-> TRUE,
                                   master_password_hash |-> hash,
                                   master_password_salt |-> salt]]
                  /\ masterResponse' = [MasterResponse("init", req.userId, 200, "")
                                          EXCEPT !.success = TRUE]
                  /\ initSucceeded' = Append(initSucceeded, req)
  /\ initRequests' = RemoveAt(initRequests, k)
  /\ UNCHANGED <<keysVars, demoVars, libState, pageState, browserVars, serverVars>>

\* A verify-master request, answered.
MasterVerify ==
  /\ \E userId \in UserIds, password \in RequestPasswords,
        fault \in {"none", "storage"} :
       masterResponse' = VerifyMasterRoute(userId, password, users, fault)
  /\ UNCHANGED <<users, initRequests, initSucceeded, keysVars, demoVars, libState,
                 pageState,
                 browserVars, serverVars>>

NextMaster ==
  \/ MasterInitSelect
  \/ \E k \in 1..Len(initRequests) : MasterInitUpdate(k)
  \/ MasterVerify

CryptoIdle ==
  /\ cData = <<>>
  /\ cPassword = <<>>
  /\ cResult = NoResult
  /\ cParams = NoParams
  /\ cChanged = "none"
  /\ cOutcome = NoOutcome
  /\ cPc = "start"

Init == PageInit /\ CryptoIdle /\ OtherIdle

Next ==
  \/ TypeMasterPassword
  \/ UnlockSubmit
  \/ \E k \in 1..Len(tasks) : UnlockFinish(k)
  \/ ToggleAddForm
  \/ AddToVaultSubmit
  \/ \E k \in 1..Len(tasks) : AddToVaultStored(k)
  \/ \E k \in 1..Len(tasks) : AddToVaultFinish(k)
  \/ RevealKeyStart
  \/ \E k \in 1..Len(tasks) : RevealKeyDecrypted(k)
  \/ \E k \in 1..Len(tasks) : RevealSecretDecrypted(k)
  \/ CopyToClipboard
  \/ ClipboardClear
  \/ DeleteVaultStart
  \/ \E k \in 1..Len(tasks) : DeleteVaultFinish(k)
  \/ LockVaultClick
  \/ AutoLockFire
  \/ Tick

Spec == Init /\ [][Next]_vars

\* The master-password routes called by either account, requests overlapping.
SpecMaster == Init /\ [][NextMaster]_vars

\* The API-key routes called by either account on any key id.
InitKeys == PageInit /\ CryptoIdle /\ MasterIdle /\ DemoIdle /\ KeysStart

SpecKeys == InitKeys /\ [][NextKeys]_vars

\* The workflow demo run, reset and run again.
SpecDemo == Init /\ [][NextDemo]_vars

(***************************************************************************)
(* SpecCrypto: the library's functions applied to bounded inputs.          *)
(***************************************************************************)
InitCrypto ==
  /\ cData \in Plaintexts
  /\ cPassword \in Passwords
  /\ cResult = NoResult
  /\ cParams = NoParams
  /\ cChanged = "none"
  /\ cOutcome = NoOutcome
  /\ cPc = "start"
  /\ PageInit
  /\ OtherIdle

\* encryptData(cData, cPassword) with the random salt and iv it drew.
CryptoEncrypt ==
  /\ cPc = "start"
  /\ \E salt \in RandomValues(SALT_LENGTH), iv \in RandomValues(IV_LENGTH) :
       LET r == encryptData(cData, cPassword, salt, iv)
       IN /\ cResult' = r
          /\ cParams' = [encrypted |-> r.encrypted, iv |-> r.iv, salt |-> r.salt,
                         masterPassword |-> cPassword]
  /\ cPc' = "encrypted"
  /\ UNCHANGED <<cData, cPassword, cChanged, cOutcome, pageVars>>

\* The caller changes one bit of one character of the stored base64 text.
CryptoFlipTextBit ==
  /\ cPc = "encrypted" /\ cChanged = "none"
  /\ \E i \in 1..Len(cParams.encrypted), mask \in BitMasks :
       cParams' = [cParams EXCEPT !.encrypted[i] = FlipBit(@, mask)]
  /\ cChanged' = "text"
  /\ UNCHANGED <<cData, cPassword, cResult, cOutcome, cPc, pageVars>>

\* The caller changes one bit of one ciphertext byte and re-encodes it.
CryptoFlipByteBit ==
  /\ cPc = "encrypted" /\ cChanged = "none"
  /\ LET bytes == atob(cParams.encrypted).bytes
     IN \E i \in 1..Len(bytes), mask \in ByteBitMasks :
          cParams' = [cParams EXCEPT
                        !.encrypted = btoa([bytes EXCEPT ![i] = FlipBit(@, mask)])]
  /\ cChanged' = "bytes"
  /\ UNCHANGED <<cData, cPassword, cResult, cOutcome, cPc, pageVars>>

\* The caller supplies another master password for decryption.
CryptoOtherPassword ==
  /\ cPc = "encrypted" /\ cChanged = "none"
  /\ \E m \in Passwords \ {cPassword} :
       cParams' = [cParams EXCEPT !.masterPassword = m]
  /\ cChanged' = "password"
  /\ UNCHANGED <<cData, cPassword, cResult, cOutcome, cPc, pageVars>>

\* The caller supplies the iv, or the salt, of another encryptData call.
CryptoOtherIvOrSalt ==
  /\ cPc = "encrypted" /\ cChanged = "none"
  /\ \/ /\ \E iv \in RandomValues(IV_LENGTH) :
             /\ arrayBufferToBase64(iv) # cParams.iv
             /\ cParams' = [cParams EXCEPT !.iv = arrayBufferToBase64(iv)]
        /\ cChanged' = "iv"
     \/ /\ \E salt \in RandomValues(SALT_LENGTH) :
             /\ arrayBufferToBase64(salt) # cParams.salt
             /\ cParams' = [cParams EXCEPT !.salt = arrayBufferToBase64(salt)]
        /\ cChanged' = "salt"
  /\ UNCHANGED <<cData, cPassword, cResult, cOutcome, cPc, pageVars>>

\* decryptData(cParams).
CryptoDecrypt ==
  /\ cPc = "encrypted"
  /\ cOutcome' = decryptData(cParams)
  /\ cPc' = "decrypted"
  /\ UNCHANGED <<cData, cPassword, cResult, cParams, cChanged, pageVars>>

NextCrypto ==
  \/ CryptoEncrypt
  \/ CryptoFlipTextBit
  \/ CryptoFlipByteBit
  \/ CryptoOtherPassword
  \/ CryptoOtherIvOrSalt
  \/ CryptoDecrypt

SpecCrypto == InitCrypto /\ [][NextCrypto]_vars

(***************************************************************************)
(* SpecFresh: encryptData called twice with the same data and password,    *)
(* as addToVault does when the key and the secret are the same text.       *)
(***************************************************************************)
\* The first call; its bundle is kept in cResult.
FreshEncrypt ==
  /\ cPc = "start"
  /\ \E salt \in RandomValues(SALT_LENGTH), iv \in RandomValues(IV_LENGTH) :
       cResult' = encryptData(cData, cPassword, salt, iv)
  /\ cPc' = "encrypted"
  /\ UNCHANGED <<cData, cPassword, cParams, cChanged, cOutcome, pageVars>>

\* The second call; its bundle is kept in cParams.
FreshEncryptAgain ==
  /\ cPc = "encrypted"
  /\ \E salt \in RandomValues(SALT_LENGTH), iv \in RandomValues(IV_LENGTH) :
       LET r == encryptData(cData, cPassword, salt, iv)
       IN cParams' = [encrypted |-> r.encrypted, iv |-> r.iv, salt |-> r.salt,
                      masterPassword |-> cPassword]
  /\ cPc' = "again"
  /\ UNCHANGED <<cData, cPassword, cResult, cChanged, cOutcome, pageVars>>

NextFresh ==
  \/ FreshEncrypt
  \/ FreshEncryptAgain

SpecFresh == InitCrypto /\ [][NextFresh]_vars

(***************************************************************************)
(* SpecServer: the vault API routes called directly, by either of two      *)
(* accounts, on any vault id.  The page is not involved.                   *)
(***************************************************************************)
MaxServerRows == 2
MaxServerAudit == 3

\* Vault ids a caller may name: the ids the table can hold and one beyond.
VaultIds == 1..(MaxServerRows + 1)

ServerFaults == {"none", "storage"}

\* A retrieve route that writes the returned fields back re-encoded.
RetrieveRouteReencoding(vaultId, userId, table, log, fault, now) ==
  LET found == SelectSeq(table, LAMBDA r : r.id = vaultId /\ r.user_id = userId
                                             /\ r.is_active)
  IN IF vaultId = 0 \/ userId = 0
     THEN [table |-> table, log |-> log,
           response |-> Response(FALSE, FALSE, <<>>, "Vault ID and User ID required")]
     ELSE IF fault = "storage" \/ Len(found) # 1
     THEN [table |-> table, log |-> log,
           response |-> Response(FALSE, FALSE, <<>>, "Vault not found")]
     ELSE [table |-> [i \in 1..Len(table) |->
                        IF table[i].id = vaultId
                        THEN [table[i] EXCEPT !.last_accessed_at = now,
                                !.encryption_iv = btoa(base64ToArrayBuffer(@).bytes \o <<0>>)]
                        ELSE table[i]],
           log |-> Append(log, AuditRow(vaultId, userId, "retrieve", "unset")),
           response |-> Response(TRUE, TRUE, found, "")]

\* POST /api/vault/retrieve, answered when the server's clock reads now.
RetrieveRoute(vaultId, userId, table, log, fault, now) ==
  LET found == SelectSeq(table, LAMBDA r : r.id = vaultId /\ r.user_id = userId
                                             /\ r.is_active)
  IN IF vaultId = 0 \/ userId = 0
     THEN [table |-> table, log |-> log,
           response |-> Response(FALSE, FALSE, <<>>, "Vault ID and User ID required")]
     ELSE IF fault = "storage" \/ Len(found) # 1
     THEN [table |-> table, log |-> log,
           response |-> Response(FALSE, FALSE, <<>>, "Vault not found")]
     ELSE [table |-> [i \in 1..Len(table) |->
                        IF table[i].id = vaultId
                        THEN [table[i] EXCEPT !.last_accessed_at = now]
                        ELSE table[i]],
           log |-> Append(log, AuditRow(vaultId, userId, "retrieve", "unset")),
           response |-> Response(TRUE, TRUE, found, "")]

\* The page size of the audit endpoint when the request names none.
AuditLimit == 50

\* GET /api/vault/audit: the caller's records, newest first, at most limit.
AuditRoute(userId, limit, log) ==
  LET own == Reverse(SelectSeq(log, LAMBDA r : r.user_id = userId))
  IN IF userId = 0
     THEN [log |-> log, response |-> Response(FALSE, FALSE, <<>>, "User ID required")]
     ELSE [log |-> log,
           response |-> Response(TRUE, TRUE,
                          SubSeq(own, 1, IF Len(own) < limit THEN Len(own) ELSE limit),
                          "")]

\* The store request of an account: ciphertext, iv and salt of one value.
ServerBody(userId) ==
  LET encryptedKey == encryptData(<<107>>, MasterA, [i \in 1..SALT_LENGTH |-> 17],
                                  [i \in 1..IV_LENGTH |-> 17])
  IN [userId |-> userId,
      encryptedApiKey |-> encryptedKey.encrypted,
      encryptedApiSecret |-> <<>>,
      encryptionIv |-> encryptedKey.iv,
      encryptionSalt |-> encryptedKey.salt]

ServerStep(out) ==
  /\ api_vault' = out.table
  /\ vault_audit_log' = out.log
  /\ UNCHANGED <<pageState, browserVars, cryptoVars>>

ApiStore ==
  /\ Len(api_vault) < MaxServerRows
  /\ Len(vault_audit_log) < MaxServerAudit
  /\ \E userId \in UserIds, fault \in ServerFaults :
       ServerStep(StoreRoute(ServerBody(userId), api_vault, vault_audit_log, fault))

ApiList ==
  /\ Len(vault_audit_log) < MaxServerAudit
  /\ \E userId \in UserIds, fault \in ServerFaults :
     ServerStep(ListRoute(userId, api_vault, vault_audit_log, fault))

ApiRetrieve ==
  /\ Len(vault_audit_log) < MaxServerAudit
  /\ \E vaultId \in VaultIds, userId \in UserIds, fault \in ServerFaults,
        now \in ServerTimes :
     ServerStep(RetrieveRoute(vaultId, userId, api_vault, vault_audit_log, fault, now))

ApiDelete ==
  /\ Len(vault_audit_log) < MaxServerAudit
  /\ \E vaultId \in VaultIds, userId \in UserIds, fault \in ServerFaults :
     ServerStep(DeleteRoute(vaultId, userId, api_vault, vault_audit_log, fault))

NextServer ==
  \/ ApiStore
  \/ ApiList
  \/ ApiRetrieve
  \/ ApiDelete

SpecServer == Init /\ [][NextServer]_vars

(***************************************************************************)
(* SpecClipboard: the Copy buttons of a revealed entry pressed repeatedly, *)
(* with the locks, the unlocks, further reveals and the passing of time.   *)
(* It starts where the page is after an unlock, the store of an entry with *)
(* a key and a secret, and the reveal of that entry.                       *)
(***************************************************************************)
MaxPendingClears == 3

RevealedEntryInit ==
  LET salt == [i \in 1..SALT_LENGTH |-> 17]
      iv == [i \in 1..IV_LENGTH |-> 17]
      encryptedKey == encryptData(<<107>>, MasterA, salt, iv)
      encryptedSecret == encryptData(<<115>>, MasterA, salt, iv)
      unlocked == ListRoute(UserId, <<>>, <<>>, "none")
      stored == StoreRoute([userId |-> UserId,
                            encryptedApiKey |-> encryptedKey.encrypted,
                            encryptedApiSecret |-> encryptedSecret.encrypted,
                            encryptionIv |-> encryptedKey.iv,
                            encryptionSalt |-> encryptedKey.salt],
                           unlocked.table, unlocked.log, "none")
      listed == ListRoute(UserId, stored.table, stored.log, "none")
      items == VaultItemsOf(listed.response.vaults)
  IN /\ isUnlocked = TRUE
     /\ masterPassword = MasterA
     /\ vaults = [j \in 1..Len(items) |->
                    [items[j] EXCEPT !.hasDecrypted = TRUE,
                                     !.decrypted = [apiKey |-> <<107>>,
                                                    apiSecret |-> <<115>>]]]
     /\ showAddForm = FALSE
     /\ loading = FALSE
     /\ error = <<>>
     /\ autoLockTimer = 3
     /\ revealedKeys = {1}
     /\ tasks = <<>>
     /\ timers = {[id |-> 3, remaining |-> AutoLockTicks, closureTimer |-> 2]}
     /\ clipboard = <<>>
     /\ clipTimers = 0
     /\ idle = 0
     /\ api_vault = listed.table
     /\ vault_audit_log = listed.log

\* Spec reaches the state SpecClipboard starts in: as an invariant of Spec
\* this is violated.
RevealedEntryNeverReached == ~RevealedEntryInit

InitClipboard == RevealedEntryInit /\ CryptoIdle /\ OtherIdle

CopyToClipboardAgain == CopyText(MaxPendingClears)

NextClipboard ==
  \/ CopyToClipboardAgain
  \/ ClipboardClear
  \/ LockVaultClick
  \/ AutoLockFire
  \/ Tick
  \/ TypeMasterPassword
  \/ UnlockSubmit
  \/ \E k \in 1..Len(tasks) : UnlockFinish(k)
  \/ RevealKeyStart
  \/ \E k \in 1..Len(tasks) : RevealKeyDecrypted(k)
  \/ \E k \in 1..Len(tasks) : RevealSecretDecrypted(k)

SpecClipboard == InitClipboard /\ [][NextClipboard]_vars

(***************************************************************************)
(* SpecPolicy: the unlock form submitted with passwords of every           *)
(* combination of character classes, one unit below the minimum length and *)
(* at the minimum length.                                                  *)
(***************************************************************************)
CharClasses == {"lower", "upper", "digit", "symbol"}

\* "a", "A", "1", "!"
ClassUnit(class) ==
  CASE class = "lower" -> 97
    [] class = "upper" -> 65
    [] class = "digit" -> 49
    [] class = "symbol" -> 33

ClassOrder == <<"lower", "upper", "digit", "symbol">>

PolicyLengths == {MinPasswordLength - 1, MinPasswordLength}

\* The password of length n made of one unit of each class in classes, in
\* ClassOrder, followed by repetitions of its first unit.
PolicyPassword(classes, n) ==
  LET present == SelectSeq(ClassOrder, LAMBDA c : c \in classes)
  IN [i \in 1..n |-> IF i <= Len(present) THEN ClassUnit(present[i])
                     ELSE ClassUnit(present[1])]

PolicyPasswords ==
  {PolicyPassword(classes, n) : classes \in (SUBSET CharClasses) \ {{}},
                                n \in PolicyLengths}

\* onChange of the master password input, with a password of PolicyPasswords.
TypePolicyPassword ==
  /\ ~isUnlocked /\ ~loading
  /\ \E m \in PolicyPasswords : masterPassword' = m
  /\ UNCHANGED <<isUnlocked, vaults, showAddForm, loading, error, autoLockTimer,
                 revealedKeys, browserVars, serverVars, cryptoVars>>

\* The special characters the security guide lists: ! @ # $ % ^ & *
PunctuationSet == {33, 64, 35, 36, 37, 94, 38, 42}

\* 16-unit passwords with a lowercase letter, an uppercase letter and a digit
\* whose only other unit is a space, or the non-ASCII letter U+00E9, or "!".
OtherSymbolUnits == {32, 233, 33}
OtherSymbolPasswords ==
  {<<65, 97, 49, u>> \o [i \in 1..(MinPasswordLength - 4) |-> 120] :
     u \in OtherSymbolUnits}

\* onChange of the master password input, with a password of
\* OtherSymbolPasswords.
TypeOtherSymbolPassword ==
  /\ ~isUnlocked /\ ~loading
  /\ \E m \in OtherSymbolPasswords : masterPassword' = m
  /\ UNCHANGED <<isUnlocked, vaults, showAddForm, loading, error, autoLockTimer,
                 revealedKeys, browserVars, serverVars, cryptoVars>>

NextPolicy ==
  \/ TypePolicyPassword
  \/ TypeOtherSymbolPassword
  \/ UnlockSubmit
  \/ \E k \in 1..Len(tasks) : UnlockFinish(k)
  \/ LockVaultClick

SpecPolicy == Init /\ [][NextPolicy]_vars

(***************************************************************************)
(* C1. Round trip: decryptData applied to the bundle encryptData returned, *)
(* with the same master password, returns exactly the plaintext.           *)
(***************************************************************************)
C1_RoundTrip ==
  (cPc = "decrypted" /\ cChanged = "none") => cOutcome = Returned(cData)

(***************************************************************************)
(* C4. Wrong-password rejection: decryptData with a master password other  *)
(* than the one used for encryption fails with the decryption error and    *)
(* returns no string.                                                      *)
(***************************************************************************)
C4_WrongPasswordRejected ==
  (cPc = "decrypted" /\ cChanged = "password")
    => cOutcome = Thrown(DecryptionFailedMessage)

(***************************************************************************)
(* C5 as stated: with any single bit of the bundle's encrypted text        *)
(* changed, decryptData fails with the decryption error.                   *)
(***************************************************************************)
C5_AnyBitFlipFails ==
  (cPc = "decrypted" /\ cChanged = "text")
    => cOutcome = Thrown(DecryptionFailedMessage)

(***************************************************************************)
(* C5 amended: with a single bit of the encrypted text changed,            *)
(* decryptData either fails with the decryption error or returns exactly   *)
(* what it returns for the unchanged bundle (the changed character then    *)
(* differs only in base64 bits that atob discards); with a single bit of   *)
(* the encoded ciphertext bytes changed it always fails.  It never returns *)
(* another plaintext.                                                      *)
(***************************************************************************)
C5_TamperNeverAltersPlaintext ==
  /\ (cPc = "decrypted" /\ cChanged = "text")
       => \/ cOutcome = Thrown(DecryptionFailedMessage)
          \/ /\ cOutcome = decryptData([cParams EXCEPT !.encrypted = cResult.encrypted])
             /\ atob(cParams.encrypted) = atob(cResult.encrypted)
  /\ (cPc = "decrypted" /\ cChanged = "bytes")
       => cOutcome = Thrown(DecryptionFailedMessage)

C5_TamperedDecrypted ==
  /\ cPc = "decrypted" /\ cChanged = "text"
  /\ cOutcome = Thrown(DecryptionFailedMessage)
  /\ atob(cParams.encrypted).ok
  /\ Len(cData) > 0

(***************************************************************************)
(* C2. Entry-level round trip: when revealKey runs, under master password  *)
(* m, on an entry that addToVault stored under m with a non-empty API key  *)
(* and a non-empty API secret, both of its decryptData calls succeed and   *)
(* return the original key and the original secret.                        *)
(***************************************************************************)
C2_EntryRoundTrip ==
  \A k \in 1..Len(tasks) :
    tasks[k].kind = "reveal" =>
      LET task == tasks[k]
          m == task.masterPassword
          Decrypt(text) == decryptData([encrypted |-> text,
                                        iv |-> task.vault.encryption_iv,
                                        salt |-> task.vault.encryption_salt,
                                        masterPassword |-> m])
      IN \A apiKey \in FormKeys, apiSecret \in FormSecrets \ {<<>>},
            salt1 \in RandomValues(SALT_LENGTH), iv1 \in FormIvs,
            salt2 \in RandomValues(SALT_LENGTH), iv2 \in FormIvs :
           ( /\ encryptData(apiKey, m, salt1, iv1)
                  = [encrypted |-> task.vault.encrypted_api_key,
                     iv |-> task.vault.encryption_iv,
                     salt |-> task.vault.encryption_salt]
             /\ encryptData(apiSecret, m, salt2, iv2).encrypted
                  = task.vault.encrypted_api_secret )
           => /\ Decrypt(task.vault.encrypted_api_key) = Returned(apiKey)
              /\ Decrypt(task.vault.encrypted_api_secret) = Returned(apiSecret)

(***************************************************************************)
(* C3. Unlock requires proof of the master secret: the page goes from      *)
(* locked to unlocked only when decryptData of some stored bundle of the   *)
(* user succeeds with the supplied master password (a vault with no bundle *)
(* has nothing to try and is let through here); with any other password it *)
(* stays locked.                                                           *)
(***************************************************************************)
C3_UnlockRequiresProof ==
  [][(~isUnlocked /\ isUnlocked')
       => LET rows == {i \in 1..Len(api_vault) :
                         api_vault[i].user_id = UserId /\ api_vault[i].is_active}
          IN \/ rows = {}
             \/ \E i \in rows :
                  decryptData([encrypted |-> api_vault[i].encrypted_api_key,
                               iv |-> api_vault[i].encryption_iv,
                               salt |-> api_vault[i].encryption_salt,
                               masterPassword |-> masterPassword']).ok]_vars

(***************************************************************************)
(* C6. Lock postcondition: right after lockVault ran, from the Lock button *)
(* or from the auto-lock timeout, the page is locked, the held master      *)
(* password is empty and vaults and revealedKeys are empty; and revealKey  *)
(* is started only while the page is unlocked.                             *)
(***************************************************************************)
C6_LockPostcondition ==
  [][ /\ (LockVaultClick \/ AutoLockFire)
        => /\ ~isUnlocked'
           /\ masterPassword' = <<>>
           /\ vaults' = <<>>
           /\ revealedKeys' = {}
      /\ ( /\ Len(tasks') = Len(tasks) + 1
           /\ tasks'[Len(tasks')].kind = "reveal" )
        => isUnlocked ]_vars

\* A value was revealed and copied, and the page was locked after that.
C6_LockedAfterReveal ==
  /\ ~isUnlocked
  /\ masterPassword = <<>>
  /\ vaults = <<>>
  /\ revealedKeys = {}
  /\ clipboard # <<>>

(***************************************************************************)
(* C7. Auto-lock: the auto-lock timeout locks an unlocked page exactly     *)
(* when five minutes have passed since the last reset of the deadline (the *)
(* unlock or the last activity that resets it), never earlier: after an    *)
(* activity at minute 4 the page stays unlocked until minute 9.            *)
(***************************************************************************)
C7_AutoLockAtDeadline ==
  [][(isUnlocked /\ AutoLockFire) => idle = AutoLockTicks]_vars

(***************************************************************************)
(* C8. No stale auto-lock timer: at most one auto-lock timeout is pending, *)
(* and it is the one the most recent resetAutoLock armed.                  *)
(***************************************************************************)
C8_NoStaleTimer ==
  /\ Cardinality(timers) <= 1
  /\ \A t \in timers : t.id = autoLockTimer

(***************************************************************************)
(* C9. Activity resets the deadline: while the page is unlocked, a         *)
(* completed reveal, a completed store, a completed delete and a copy each *)
(* leave the auto-lock deadline five minutes ahead.                        *)
(***************************************************************************)
C9_ActivityResetsDeadline ==
  [][( /\ isUnlocked /\ isUnlocked'
       /\ \/ CopyToClipboard
          \/ revealedKeys' # revealedKeys
          \/ /\ Len(vault_audit_log') = Len(vault_audit_log) + 1
             /\ vault_audit_log'[Len(vault_audit_log')].action = "delete"
          \/ \E k \in 1..Len(tasks) :
               /\ tasks[k].kind = "add" /\ tasks[k].pc = "list"
               /\ Len(tasks') = Len(tasks) - 1
               /\ Len(vault_audit_log') = Len(vault_audit_log) + 1 )
       => \E t \in timers' : t.id = autoLockTimer' /\ t.remaining = AutoLockTicks]_vars

(***************************************************************************)
(* C10. Ordering of decrypt after unlock: the vault page starts a          *)
(* decryptData call, for an entry's key or for its secret, only while the  *)
(* page is unlocked.                                                       *)
(***************************************************************************)
C10_DecryptOnlyWhileUnlocked ==
  [][( \/ RevealKeyStart
       \/ \E k \in 1..Len(tasks) :
            RevealKeyDecrypted(k) /\ Len(tasks') = Len(tasks) /\ tasks'[k].pc = "secret" )
       => isUnlocked]_vars

(***************************************************************************)
(* C11. Zero-knowledge boundary: the store request the page sends carries  *)
(* the ciphertext, iv and salt that encryptData returned for the API key   *)
(* and the ciphertext it returned for the API secret, and no field of it   *)
(* is the master password or a value the user entered in the form; list    *)
(* and delete requests carry no such field at all; and the row the server  *)
(* persists holds exactly the fields of a store request.                   *)
(***************************************************************************)
C11_ZeroKnowledgeBoundary ==
  [][ LET sent == tasks'[Len(tasks')]
          stored == api_vault'[Len(api_vault')]
      IN /\ (Len(tasks') = Len(tasks) + 1 /\ sent.kind = "add")
              => /\ \A field \in {sent.body.encryptedApiKey, sent.body.encryptedApiSecret,
                                  sent.body.encryptionIv, sent.body.encryptionSalt} :
                      /\ field \notin TypedPasswords
                      /\ field \notin (FormKeys \cup FormSecrets) \ {<<>>}
                 /\ \E apiKey \in FormKeys, salt \in RandomValues(SALT_LENGTH),
                       iv \in FormIvs :
                      encryptData(apiKey, masterPassword, salt, iv)
                        = [encrypted |-> sent.body.encryptedApiKey,
                           iv |-> sent.body.encryptionIv,
                           salt |-> sent.body.encryptionSalt]
                 /\ \/ sent.body.encryptedApiSecret = <<>>
                    \/ \E apiSecret \in FormSecrets \ {<<>>},
                          salt \in RandomValues(SALT_LENGTH), iv \in FormIvs :
                         encryptData(apiSecret, masterPassword, salt, iv).encrypted
                           = sent.body.encryptedApiSecret
         /\ (Len(tasks') = Len(tasks) + 1 /\ sent.kind # "add")
              => sent.body = NoBody
         /\ (Len(api_vault') = Len(api_vault) + 1)
              => \E k \in 1..Len(tasks) :
                   /\ tasks[k].pc = "store"
                   /\ stored.encrypted_api_key = tasks[k].body.encryptedApiKey
                   /\ stored.encrypted_api_secret = tasks[k].body.encryptedApiSecret
                   /\ stored.encryption_iv = tasks[k].body.encryptionIv
                   /\ stored.encryption_salt = tasks[k].body.encryptionSalt ]_vars

\* A store request with both a key and a secret is in flight.
C11_StoreInFlight ==
  \E k \in 1..Len(tasks) :
    /\ tasks[k].pc = "store"
    /\ tasks[k].body.encryptedApiSecret # <<>>

(***************************************************************************)
(* C12. Ownership isolation: in every state of the tables, list(userId)    *)
(* and retrieve(vaultId, userId) return only rows owned by userId,         *)
(* retrieve of a row owned by another account answers "Vault not found",   *)
(* and delete(vaultId, userId) changes no row that userId does not own; so *)
(* a row stays active until its owner deletes it.                          *)
(***************************************************************************)
C12_OwnershipIsolation ==
  /\ \A userId \in UserIds :
       LET out == ListRoute(userId, api_vault, vault_audit_log, "none")
       IN \A i \in 1..Len(out.response.vaults) :
            out.response.vaults[i].user_id = userId
  /\ \A vaultId \in VaultIds, userId \in UserIds :
       LET got == RetrieveRoute(vaultId, userId, api_vault, vault_audit_log, "none", 1)
           del == DeleteRoute(vaultId, userId, api_vault, vault_audit_log, "none")
       IN /\ \A i \in 1..Len(got.response.vaults) :
               got.response.vaults[i].user_id = userId
          /\ (\E i \in 1..Len(api_vault) :
                api_vault[i].id = vaultId /\ api_vault[i].user_id # userId)
               => /\ ~got.response.ok
                  /\ got.response.error = "Vault not found"
          /\ \A i \in 1..Len(api_vault) :
               api_vault[i].user_id # userId => del.table[i] = api_vault[i]
  /\ \A i \in 1..Len(api_vault) :
       ~api_vault[i].is_active
         => \E j \in 1..Len(vault_audit_log) :
              /\ vault_audit_log[j].action = "delete"
              /\ vault_audit_log[j].vault_id = api_vault[i].id
              /\ vault_audit_log[j].user_id = api_vault[i].user_id

\* Another account called delete on a row, and the row is still active.
C12_ForeignDeleteLeftActive ==
  \E i \in 1..Len(api_vault), j \in 1..Len(vault_audit_log) :
    /\ api_vault[i].is_active
    /\ vault_audit_log[j].action = "delete"
    /\ vault_audit_log[j].vault_id = api_vault[i].id
    /\ vault_audit_log[j].user_id # api_vault[i].user_id

(***************************************************************************)
(* C13. Soft delete: once a row is deactivated, every later state still    *)
(* holds the row unchanged (nothing reactivates or erases it), list and    *)
(* retrieve never return it, and the audit log keeps every record it had.  *)
(***************************************************************************)
C13_SoftDelete ==
  [][ /\ \A i \in 1..Len(api_vault) :
           ~api_vault[i].is_active
             => /\ i <= Len(api_vault')
                /\ api_vault'[i] = api_vault[i]
                /\ \A userId \in UserIds :
                     LET listed == ListRoute(userId, api_vault', vault_audit_log',
                                             "none").response.vaults
                         got == RetrieveRoute(api_vault[i].id, userId, api_vault',
                                              vault_audit_log', "none", 1).response
                     IN /\ \A k \in 1..Len(listed) : listed[k].id # api_vault[i].id
                        /\ ~got.success
      /\ Len(vault_audit_log') >= Len(vault_audit_log)
      /\ SubSeq(vault_audit_log', 1, Len(vault_audit_log)) = vault_audit_log ]_vars

\* The owner deleted a row and listed the vault afterwards.
C13_ListedAfterDelete ==
  \E i \in 1..Len(api_vault), j \in 1..Len(vault_audit_log), k \in 1..Len(vault_audit_log) :
    /\ ~api_vault[i].is_active
    /\ j < k
    /\ vault_audit_log[j].action = "delete"
    /\ vault_audit_log[j].vault_id = api_vault[i].id
    /\ vault_audit_log[j].user_id = api_vault[i].user_id
    /\ vault_audit_log[k].action = "list"
    /\ vault_audit_log[k].user_id = api_vault[i].user_id

(***************************************************************************)
(* C14. Audit completeness: a step that stores a row, completes a reveal   *)
(* successfully, answers a list or deactivates a row appends exactly one   *)
(* audit record, of action store, retrieve, list or delete respectively.   *)
(***************************************************************************)
C14_AuditCompleteness ==
  [][ LET Emits(action) ==
            /\ Len(vault_audit_log') = Len(vault_audit_log) + 1
            /\ SubSeq(vault_audit_log', 1, Len(vault_audit_log)) = vault_audit_log
            /\ vault_audit_log'[Len(vault_audit_log')].action = action
      IN /\ (Len(api_vault') = Len(api_vault) + 1) => Emits("store")
         /\ (\E i \in 1..Len(api_vault) :
               /\ i <= Len(api_vault')
               /\ api_vault[i].is_active /\ ~api_vault'[i].is_active) => Emits("delete")
         /\ (\E k \in 1..Len(tasks) :
               /\ tasks[k].pc = "list"
               /\ tasks' = RemoveAt(tasks, k)
               /\ autoLockTimer' # autoLockTimer) => Emits("list")
         /\ (\E k \in 1..Len(tasks) :
               /\ tasks[k].kind = "reveal"
               /\ tasks' = RemoveAt(tasks, k)
               /\ autoLockTimer' # autoLockTimer) => Emits("retrieve") ]_vars

(***************************************************************************)
(* C15. Failed operations are audited: in every state of the tables, a     *)
(* retrieve or a delete that fails (no active row of that id owned by the  *)
(* caller, or a storage error) appends one audit record of its action that *)
(* carries a failure flag.                                                 *)
(***************************************************************************)
C15_FailuresAudited ==
  \A vaultId \in VaultIds, userId \in UserIds, fault \in ServerFaults :
    LET owned == \E i \in 1..Len(api_vault) :
                   /\ api_vault[i].id = vaultId
                   /\ api_vault[i].user_id = userId
                   /\ api_vault[i].is_active
        got == RetrieveRoute(vaultId, userId, api_vault, vault_audit_log, fault, 1)
        del == DeleteRoute(vaultId, userId, api_vault, vault_audit_log, fault)
    IN (~owned \/ fault = "storage")
         => /\ got.log = Append(vault_audit_log,
                                AuditRow(vaultId, userId, "retrieve", "false"))
            /\ del.log = Append(vault_audit_log,
                                AuditRow(vaultId, userId, "delete", "false"))

(***************************************************************************)
(* C16. Client failures are surfaced: when an unlock ends without          *)
(* unlocking, a delete ends without the server having deleted, a store     *)
(* request ends without a stored row, or a reveal ends without a revealed  *)
(* value, the page shows a non-empty error.                                *)
(***************************************************************************)
C16_FailuresSurfaced ==
  [][ \A k \in 1..Len(tasks) :
        ( /\ tasks' = RemoveAt(tasks, k)
          /\ \/ tasks[k].kind = "unlock" /\ autoLockTimer' = autoLockTimer
             \/ tasks[k].kind = "delete" /\ vault_audit_log' = vault_audit_log
             \/ tasks[k].pc = "store" /\ api_vault' = api_vault
             \/ tasks[k].kind = "reveal" /\ autoLockTimer' = autoLockTimer )
        => error' # <<>> ]_vars

C18_PasswordPolicy ==
  [][ UnlockSubmit =>
        \A classes \in (SUBSET CharClasses) \ {{}}, n \in PolicyLengths :
          masterPassword = PolicyPassword(classes, n) =>
            LET expected ==
                  (IF n < 16 THEN <<"Password must be at least 16 characters">>
                             ELSE <<>>)
                  \o (IF "lower" \notin classes
                        THEN <<"Password must contain lowercase letters">> ELSE <<>>)
                  \o (IF "upper" \notin classes
                        THEN <<"Password must contain uppercase letters">> ELSE <<>>)
                  \o (IF "digit" \notin classes
                        THEN <<"Password must contain numbers">> ELSE <<>>)
                  \o (IF "symbol" \notin classes
                        THEN <<"Password must contain special characters">> ELSE <<>>)
                validation == validateMasterPassword(masterPassword)
            IN /\ validation.errors = expected
               /\ validation.valid <=> (expected = <<>>)
               /\ IF expected = <<>>
                  THEN Len(tasks') = Len(tasks) + 1 /\ error' = <<>>
                  ELSE tasks' = tasks /\ error' = expected ]_vars

\* The form was submitted with a 15-unit password of all four classes and
\* shows the length error alone.
C18_OnlyLengthViolation ==
  /\ masterPassword = PolicyPassword(CharClasses, MinPasswordLength - 1)
  /\ error = <<"Password must be at least 16 characters">>
  /\ ~isUnlocked /\ ~loading

(***************************************************************************)
(* C19. Failure causes are indistinguishable: whenever decryptData fails,  *)
(* after a change of the master password, of the encrypted text (which may *)
(* leave it malformed base64), of the ciphertext bytes, of the iv or of    *)
(* the salt, it raises the one generic error value; and with another iv,   *)
(* another salt or a changed ciphertext byte it does fail.                 *)
(***************************************************************************)
C19_OneErrorValue ==
  cPc = "decrypted" =>
    /\ ~cOutcome.ok => cOutcome = Thrown(DecryptionFailedMessage)
    /\ cChanged \in {"iv", "salt", "bytes"} => ~cOutcome.ok

\* decryptData failed on an encrypted text that is no longer base64.
C19_MalformedBase64Failed ==
  /\ cPc = "decrypted" /\ cChanged = "text"
  /\ ~atob(cParams.encrypted).ok
  /\ cOutcome = Thrown(DecryptionFailedMessage)

(***************************************************************************)
(* C20. Re-enterable state machine with no lockout: an unlock that fails,  *)
(* at the policy check or at its request, leaves the page locked with a    *)
(* non-empty error and with the unlock form enabled again for the next     *)
(* attempt; and every lock, from the button or the timeout, leaves the     *)
(* page locked.                                                            *)
(***************************************************************************)
C20_ReEnterable ==
  [][ /\ ( \/ \E k \in 1..Len(tasks) :
                /\ tasks[k].kind = "unlock"
                /\ tasks' = RemoveAt(tasks, k)
                /\ autoLockTimer' = autoLockTimer
           \/ UnlockSubmit /\ tasks' = tasks )
        => /\ ~isUnlocked'
           /\ error' # <<>>
           /\ ~loading'
      /\ (LockVaultClick \/ AutoLockFire) => ~isUnlocked' ]_vars

(***************************************************************************)
(* C21. The audit log is append-only: every store, list, retrieve or       *)
(* delete request leaves each record the log held where it was and         *)
(* unchanged, also the records that refer to a soft-deleted row, and the   *)
(* audit endpoint goes on returning every record it returned before.       *)
(***************************************************************************)
C21_AuditAppendOnly ==
  [][ /\ Len(vault_audit_log') >= Len(vault_audit_log)
      /\ \A j \in 1..Len(vault_audit_log) : vault_audit_log'[j] = vault_audit_log[j]
      /\ \A userId \in UserIds :
           LET before == AuditRoute(userId, AuditLimit, vault_audit_log).response.vaults
               after == AuditRoute(userId, AuditLimit, vault_audit_log').response.vaults
           IN /\ Len(after) >= Len(before)
              /\ SubSeq(after, Len(after) - Len(before) + 1, Len(after)) = before ]_vars

\* A row was stored and then soft-deleted by its owner, and a later request
\* has been logged after the delete.
C21_LoggedAfterSoftDelete ==
  \E i \in 1..Len(api_vault), j \in 1..Len(vault_audit_log), k \in 1..Len(vault_audit_log) :
    /\ ~api_vault[i].is_active
    /\ j < k /\ k < Len(vault_audit_log)
    /\ vault_audit_log[j] = AuditRow(api_vault[i].id, api_vault[i].user_id, "store", "unset")
    /\ vault_audit_log[k] = AuditRow(api_vault[i].id, api_vault[i].user_id, "delete", "true")

(***************************************************************************)
(* C22. Cryptographic fields are write-once: no store, list, retrieve or   *)
(* delete request changes the ciphertext, IV or salt of a row already      *)
(* stored; a retrieve changes nothing but last_accessed_at of the row it    *)
(* names, a delete nothing but is_active of that row, a list nothing; and   *)
(* list and retrieve return the three fields exactly as the store request   *)
(* sent them.                                                               *)
(***************************************************************************)
C22_CryptoFieldsWriteOnce ==
  [][ LET Crypto(r) == <<r.encrypted_api_key, r.encrypted_api_secret,
                         r.encryption_iv, r.encryption_salt>>
          Sent(userId) == <<ServerBody(userId).encryptedApiKey,
                            ServerBody(userId).encryptedApiSecret,
                            ServerBody(userId).encryptionIv,
                            ServerBody(userId).encryptionSalt>>
          Logged(action) ==
            /\ Len(vault_audit_log') = Len(vault_audit_log) + 1
            /\ vault_audit_log'[Len(vault_audit_log')].action = action
          last == vault_audit_log'[Len(vault_audit_log')]
      IN /\ \A i \in 1..Len(api_vault) :
              /\ i <= Len(api_vault')
              /\ api_vault'[i].id = api_vault[i].id
              /\ api_vault'[i].user_id = api_vault[i].user_id
              /\ Crypto(api_vault'[i]) = Crypto(api_vault[i])
         /\ Logged("retrieve")
              => /\ Len(api_vault') = Len(api_vault)
                 /\ \A i \in 1..Len(api_vault) :
                      IF api_vault[i].id = last.vault_id
                      THEN api_vault'[i] = [api_vault[i] EXCEPT !.last_accessed_at =
                                              api_vault'[i].last_accessed_at]
                      ELSE api_vault'[i] = api_vault[i]
         /\ Logged("delete")
              => /\ Len(api_vault') = Len(api_vault)
                 /\ \A i \in 1..Len(api_vault) :
                      IF api_vault[i].id = last.vault_id
                      THEN api_vault'[i] = [api_vault[i] EXCEPT !.is_active =
                                              api_vault'[i].is_active]
                      ELSE api_vault'[i] = api_vault[i]
         /\ Logged("list") => api_vault' = api_vault
         /\ \A userId \in UserIds :
              LET listed == ListRoute(userId, api_vault', vault_audit_log',
                                      "none").response.vaults
              IN \A k \in 1..Len(listed) : Crypto(listed[k]) = Sent(listed[k].user_id)
         /\ \A vaultId \in VaultIds, userId \in UserIds, now \in ServerTimes :
              LET got == RetrieveRoute(vaultId, userId, api_vault', vault_audit_log',
                                       "none", now).response.vaults
              IN \A k \in 1..Len(got) :
                   /\ got[k].id = vaultId
                   /\ Crypto(got[k]) = Sent(got[k].user_id) ]_vars

\* A row has been retrieved and afterwards soft-deleted.
C22_RetrievedThenDeleted ==
  \E i \in 1..Len(api_vault) :
    /\ api_vault[i].last_accessed_at # 0
    /\ ~api_vault[i].is_active

(***************************************************************************)
(* C23. Salt and nonce freshness as stated: two encryptData calls with the *)
(* same plaintext and password return different salt, different IV and     *)
(* different ciphertext.                                                   *)
(***************************************************************************)
C23_AlwaysDifferent ==
  cPc = "again"
    => /\ cParams.salt # cResult.salt
       /\ cParams.iv # cResult.iv
       /\ cParams.encrypted # cResult.encrypted

(***************************************************************************)
(* C23, amended. Each encryptData call returns the 16-byte salt and the    *)
(* 12-byte IV it drew at that call and a ciphertext made with the key      *)
(* derived from that salt; two calls with the same plaintext and password  *)
(* that drew different salts use different keys, and they use the same     *)
(* (key, IV) pair only when both of their draws coincided.                 *)
(***************************************************************************)
C23_FreshDrawsPerCall ==
  cPc = "again"
    => LET salt1 == base64ToArrayBuffer(cResult.salt).bytes
           salt2 == base64ToArrayBuffer(cParams.salt).bytes
           iv1 == base64ToArrayBuffer(cResult.iv).bytes
           iv2 == base64ToArrayBuffer(cParams.iv).bytes
           key1 == deriveKey(cPassword, salt1)
           key2 == deriveKey(cPassword, salt2)
       IN /\ Len(salt1) = SALT_LENGTH /\ Len(salt2) = SALT_LENGTH
          /\ Len(iv1) = IV_LENGTH /\ Len(iv2) = IV_LENGTH
          /\ cResult.encrypted =
               arrayBufferToBase64(AesGcmEncrypt(key1, iv1, TextEncode(cData)))
          /\ cParams.encrypted =
               arrayBufferToBase64(AesGcmEncrypt(key2, iv2, TextEncode(cData)))
          /\ salt1 # salt2 => key1 # key2
          /\ (key1 = key2 /\ iv1 = iv2)
               => /\ cParams.salt = cResult.salt
                  /\ cParams.iv = cResult.iv
                  /\ cParams.encrypted = cResult.encrypted

\* Two calls with the same inputs whose draws differed in salt and in IV.
C23_SecondCallDrewAnew ==
  /\ cPc = "again"
  /\ cParams.salt # cResult.salt
  /\ cParams.iv # cResult.iv
  /\ cParams.encrypted # cResult.encrypted

(***************************************************************************)
(* C24. Locked-state invariant under interleaving: in every state where    *)
(* the session is locked the page holds no vault items, no decrypted       *)
(* plaintext and no revealed ids, and no auto-lock timer is armed, also    *)
(* when a reveal or a store started while unlocked completes after the     *)
(* lock.                                                                   *)
(***************************************************************************)
C24_LockedHoldsNothing ==
  ~isUnlocked
    => /\ vaults = <<>>
       /\ \A i \in 1..Len(vaults) : ~vaults[i].hasDecrypted
       /\ revealedKeys = {}
       /\ timers = {}

(***************************************************************************)
(* C25. No lost update between overlapping page operations: while the      *)
(* vault is unlocked, an entry whose delete succeeded (its row is          *)
(* deactivated) is not in the displayed list, and an entry whose reveal    *)
(* succeeded (its id is in revealedKeys) still carries its decrypted       *)
(* value, whichever of two overlapping handlers completes last.            *)
(***************************************************************************)
C25_NoLostUpdate ==
  isUnlocked
    => /\ \A i \in 1..Len(vaults), j \in 1..Len(api_vault) :
            api_vault[j].id = vaults[i].id => api_vault[j].is_active
       /\ \A i \in 1..Len(vaults) :
            vaults[i].id \in revealedKeys => vaults[i].hasDecrypted

(***************************************************************************)
(* C26. Symbol rule uses a defined punctuation set: when the unlock form   *)
(* is submitted with a password that holds no character of the             *)
(* punctuation set (its only non-alphanumeric character is a space or a    *)
(* non-ASCII letter), validateMasterPassword reports the special-character *)
(* violation and the form shows it.                                        *)
(***************************************************************************)
C26_SymbolFromPunctuationSet ==
  [][ (UnlockSubmit /\ ~HasUnit(masterPassword, PunctuationSet))
        => /\ \E i \in 1..Len(validateMasterPassword(masterPassword).errors) :
                validateMasterPassword(masterPassword).errors[i]
                  = "Password must contain special characters"
           /\ ~validateMasterPassword(masterPassword).valid
           /\ tasks' = tasks
           /\ \E i \in 1..Len(error') :
                error'[i] = "Password must contain special characters" ]_vars

(***************************************************************************)
(* C27. A 'delete' audit record with success = true is written only by a   *)
(* request that deactivated an active row owned by the requesting user: a  *)
(* delete naming a row that does not exist, that another account owns or   *)
(* that is already deleted writes no successful-delete record.             *)
(***************************************************************************)
C27_DeleteAuditedOnlyWhenDeactivated ==
  [][ \A vaultId \in VaultIds, userId \in UserIds :
        vault_audit_log' = Append(vault_audit_log,
                                  AuditRow(vaultId, userId, "delete", "true"))
          => \E i \in 1..Len(api_vault) :
               /\ api_vault[i].id = vaultId
               /\ api_vault[i].user_id = userId
               /\ api_vault[i].is_active
               /\ ~api_vault'[i].is_active ]_vars

(***************************************************************************)
(* C28. Master-password initialisation is one-shot and verifiable: once a  *)
(* user's vault is initialised no request changes the stored hash and      *)
(* salt, and an init request that finds it initialised is answered         *)
(* 'Master password already initialized'; of the init requests for one     *)
(* user, overlapping or not, at most one is answered with success; and     *)
(* after init(userId, m) succeeded, verify-master(userId, m') answers      *)
(* valid = true exactly when m' = m.                                        *)
(***************************************************************************)
C28_InitOneShot ==
  [][ /\ \A userId \in UserIds :
           users[userId].vault_initialized
             => /\ users'[userId] = users[userId]
                /\ (/\ masterResponse' # masterResponse
                    /\ masterResponse'.route = "init"
                    /\ masterResponse'.userId = userId
                    /\ masterResponse'.status # 500
                    /\ Len(initRequests') = Len(initRequests))
                     => /\ masterResponse'.status = 400
                        /\ masterResponse'.error
                             \in {"Master password already initialized",
                                  "User ID and master password required"}
      /\ \A userId \in UserIds :
           Cardinality({k \in 1..Len(initSucceeded') :
                          initSucceeded'[k].userId = userId}) <= 1
      /\ \A k \in 1..Len(initSucceeded'), password \in MasterPasswords :
           VerifyMasterRoute(initSucceeded'[k].userId, password, users', "none").valid
             <=> password = initSucceeded'[k].masterPassword ]_vars

(***************************************************************************)
(* C29. PIN and key checks gate their side effects: a verify-pin request   *)
(* is answered pin_verified = true, and writes its API_KEY_VIEWED record,  *)
(* only when the supplied PIN matches the stored PIN hash of the named key *)
(* (the PIN the key was created with); a request with another PIN or an    *)
(* unknown key is answered 401 or 404 and writes nothing.  A keys/test     *)
(* request is answered success, stamps last_used_at of that key alone and  *)
(* writes its API_ENDPOINT_ACCESSED record only when the named key is      *)
(* active and the supplied key matches its stored hash.                    *)
(***************************************************************************)
C29_ChecksGateSideEffects ==
  [][ LET r == keysResponse'
          Row(i) == api_keys[i]
          pinMatch == \E i \in 1..Len(api_keys) :
                        /\ Row(i).id = r.keyId
                        /\ bcryptCompare(r.supplied, Row(i).pin_hash)
                        /\ r.supplied = keySecrets[i].pin
          keyMatch == \E i \in 1..Len(api_keys) :
                        /\ Row(i).id = r.keyId
                        /\ Row(i).is_active
                        /\ bcryptCompare(r.supplied, Row(i).key_hash)
                        /\ r.supplied = keySecrets[i].apiKey
          Wrote(action) ==
            audit_logs' = Append(audit_logs, KeyAuditRow(r.userId, r.keyId, action))
      IN /\ r.route = "verify-pin"
              => /\ r.pin_verified => pinMatch
                 /\ audit_logs' # audit_logs
                      => pinMatch /\ r.pin_verified /\ Wrote("API_KEY_VIEWED")
                 /\ (~pinMatch /\ r.supplied # <<>>)
                      => r.status \in {401, 404} /\ audit_logs' = audit_logs
                 /\ api_keys' = api_keys
         /\ r.route = "test"
              => /\ r.success => keyMatch
                 /\ audit_logs' # audit_logs
                      => keyMatch /\ r.success /\ Wrote("API_ENDPOINT_ACCESSED")
                 /\ api_keys' # api_keys
                      => /\ keyMatch /\ r.success
                         /\ Len(api_keys') = Len(api_keys)
                         /\ \A i \in 1..Len(api_keys) :
                              IF Row(i).id = r.keyId
                              THEN api_keys'[i] = [Row(i) EXCEPT !.last_used_at =
                                                     api_keys'[i].last_used_at]
                              ELSE api_keys'[i] = Row(i)
                 /\ ~keyMatch => ~r.success /\ r.status # 200 ]_vars

\* The PIN of a key was verified and logged, and the last request, a
\* keys/test with a key that does not match or on a deactivated key, was
\* answered 401.
C29_RejectedAfterVerified ==
  /\ \E j \in 1..Len(audit_logs) : audit_logs[j].action = "API_KEY_VIEWED"
  /\ keysResponse.route = "test"
  /\ keysResponse.status = 401
  /\ keysResponse.supplied # <<>>

(***************************************************************************)
(* C30. Workflow demo step order: in every step of runs of runDemo, also   *)
(* of a second run started without reset, at most one step is 'loading';   *)
(* a step becomes 'loading' only when every earlier step is 'success' and  *)
(* no later step is 'success' or 'error'; and when a request fails,        *)
(* exactly the step in progress becomes 'error', the other steps keep      *)
(* their status and isRunning is false again.                              *)
(***************************************************************************)
C30_DemoStepOrder ==
  [][ /\ Cardinality({i \in StepIds : steps'[i] = "loading"}) <= 1
      /\ \A i \in StepIds :
           (steps[i] # "loading" /\ steps'[i] = "loading")
             => /\ \A j \in StepIds : j < i => steps'[j] = "success"
                /\ \A j \in StepIds : j > i => steps'[j] \notin {"success", "error"}
      /\ \A i \in StepIds :
           (steps[i] # "error" /\ steps'[i] = "error")
             => /\ steps[i] = "loading"
                /\ demoPc.step = i
                /\ \A j \in StepIds \ {i} : steps'[j] = steps[j]
                /\ ~isRunning' ]_vars

====
